---------------------------- MODULE Spec2Model ----------------------------
(***************************************************************************)
(* The input sequencing layer of the vimgym puzzle screen: PuzzleView      *)
(* (key buffering, local mode estimate, keystroke counting), the           *)
(* synchronization with the embedded editor, scoring and the best-result   *)
(* store.                                                                  *)
(*                                                                         *)
(* Go strings that the code inspects byte by byte (key translations,       *)
(* command strings, editor mode tokens, buffer texts) are sequences of     *)
(* one-character strings; display mode names, which the code only compares *)
(* as a whole, are plain strings.                                          *)
(***************************************************************************)
EXTENDS Integers, Sequences, FiniteSets, TLC

\* ------------------------------------------------------------------ bounds
\* Key events handled by handleNvimInput in one attempt.
MaxKeystrokes == 3
\* nvimSyncMsg ticks scheduled and not yet delivered.
MaxSyncs == 2

\* ------------------------------------------------------------- star ratings
NoStar == 0
OneStar == 1
TwoStar == 2
ThreeStar == 3

\* ---------------------------------------------------------- string helpers
Str1(c) == <<c>>

HasPrefix(s, p) == Len(s) >= Len(p) /\ SubSeq(s, 1, Len(p)) = p

TrimPrefix(s, p) == IF HasPrefix(s, p) THEN SubSeq(s, Len(p) + 1, Len(s)) ELSE s

RECURSIVE TrimRight(_, _)
TrimRight(s, c) ==
    IF s # <<>> /\ s[Len(s)] = c THEN TrimRight(SubSeq(s, 1, Len(s) - 1), c) ELSE s

\* strings.ReplaceAll(s, "<", "<LT>")
RECURSIVE EscapeLT(_)
EscapeLT(s) ==
    IF s = <<>> THEN <<>>
    ELSE (IF Head(s) = "<" THEN <<"<", "L", "T", ">">> ELSE <<Head(s)>>) \o EscapeLT(Tail(s))

UpperOf == [c \in {"n", "o", "i", "v", "c", "t", "s", "r"} |->
            CASE c = "n" -> "N" [] c = "o" -> "O" [] c = "i" -> "I" [] c = "v" -> "V"
              [] c = "c" -> "C" [] c = "t" -> "T" [] c = "s" -> "S" [] c = "r" -> "R"]

\* strings.ToUpper, joined into a display name
RECURSIVE ToUpper(_)
ToUpper(s) ==
    IF s = <<>> THEN ""
    ELSE (IF Head(s) \in DOMAIN UpperOf THEN UpperOf[Head(s)] ELSE Head(s)) \o ToUpper(Tail(s))

Digits == {"0", "1", "2", "3", "4", "5", "6", "7", "8", "9"}

\* ------------------------------------------------------------ key strings
Esc == <<"<", "E", "s", "c", ">">>
CtrlPrefix == <<"c", "t", "r", "l", "+">>
NoKeys == <<>>

\* ------------------------------------------------------------ the puzzle
\* One puzzle record (puzzle.Puzzle): the fields the session reads.
ThePuzzle == [ID |-> "p1", Track |-> 1, Level |-> 1, Par |-> 2,
              Before |-> <<"b">>, After |-> <<"a">>]

\* ------------------------------------------------- puzzle.Score / Validate
\* Go's int is 32 or 64 bits wide and its arithmetic wraps; the model keeps
\* the wrapping at a smaller width.
IntBits == 6

MaxInt == 2 ^ (IntBits - 1) - 1

\* the value an int holds after an operation whose exact result is x
WrapInt(x) == ((x + 2 ^ (IntBits - 1)) % (2 ^ IntBits)) - 2 ^ (IntBits - 1)

\* Go's integer division, which truncates toward zero
Quo(a, b) == IF a >= 0 THEN a \div b ELSE 0 - ((0 - a) \div b)

\* Score with the bands exchanged
ScoreBandsExchanged(keystrokes, par) ==
    IF keystrokes <= par THEN TwoStar
    ELSE IF keystrokes <= Quo(WrapInt(par * 3), 2) THEN ThreeStar
    ELSE OneStar

Score(keystrokes, par) ==
    IF keystrokes <= par THEN ThreeStar
    ELSE IF keystrokes <= Quo(WrapInt(par * 3), 2) THEN TwoStar
    ELSE OneStar

\* Validate that compares the texts as they are
ValidateExact(current, target) == current = target

Validate(current, target) == TrimRight(current, "\n") = TrimRight(target, "\n")

\* ------------------------------------------------------ progress.SetBest
\* SetBest without the comparison of the keystrokes
SetBestHigherRatingOnly(res, puzzleID, stars, keystrokes) ==
    IF puzzleID \notin DOMAIN res \/ stars > res[puzzleID].Stars
    THEN [id \in DOMAIN res \cup {puzzleID} |->
            IF id = puzzleID THEN [Stars |-> stars, Keystrokes |-> keystrokes]
            ELSE res[id]]
    ELSE res

\* SetBest that stores every result
SetBestAlways(res, puzzleID, stars, keystrokes) ==
    [id \in DOMAIN res \cup {puzzleID} |->
        IF id = puzzleID THEN [Stars |-> stars, Keystrokes |-> keystrokes]
        ELSE res[id]]

\* SetBest that prefers fewer keystrokes to a higher rating
SetBestFewerKeystrokesFirst(res, puzzleID, stars, keystrokes) ==
    IF \/ puzzleID \notin DOMAIN res
       \/ keystrokes < res[puzzleID].Keystrokes
       \/ (keystrokes = res[puzzleID].Keystrokes /\ stars > res[puzzleID].Stars)
    THEN [id \in DOMAIN res \cup {puzzleID} |->
            IF id = puzzleID THEN [Stars |-> stars, Keystrokes |-> keystrokes]
            ELSE res[id]]
    ELSE res

SetBest(res, puzzleID, stars, keystrokes) ==
    IF \/ puzzleID \notin DOMAIN res
       \/ stars > res[puzzleID].Stars
       \/ (stars = res[puzzleID].Stars /\ keystrokes < res[puzzleID].Keystrokes)
    THEN [id \in DOMAIN res \cup {puzzleID} |->
            IF id = puzzleID THEN [Stars |-> stars, Keystrokes |-> keystrokes]
            ELSE res[id]]
    ELSE res

\* ------------------------------------------------- nvim.ModeDisplayName
CtrlVMode == <<"^V">>

ModeDisplayName(mode) ==
    IF HasPrefix(mode, <<"n">>) THEN "NORMAL"
    ELSE IF HasPrefix(mode, <<"i">>) THEN "INSERT"
    ELSE IF HasPrefix(mode, <<"v">>) THEN "VISUAL"
    ELSE IF HasPrefix(mode, <<"V">>) THEN "V-LINE"
    ELSE IF mode = CtrlVMode THEN "V-BLOCK"
    ELSE IF HasPrefix(mode, <<"c">>) THEN "COMMAND"
    ELSE IF HasPrefix(mode, <<"R">>) THEN "REPLACE"
    ELSE ToUpper(mode)

\* ---------------------------------------------------- key classification
\* The backquote character, written as a word.
Backquote == "backquote"

shouldBufferKey(keys) ==
    keys \in {Str1(c) : c \in {"r", "f", "t", "F", "T", "m", "'", Backquote,
                               "g", "z", "@", "q", "[", "]"}}

shouldStartOperator(keys) == keys \in {<<"d">>, <<"c">>, <<"y">>}

keyNeedsChar(keys) == keys \in {<<"r">>, <<"f">>, <<"t">>, <<"F">>, <<"T">>}

\* Mutant of isDigitKey: "0" is never a digit key.
isDigitKeyNonZero(keys) == Len(keys) = 1 /\ keys[1] \in Digits \ {"0"}

isDigitKey(keys) == Len(keys) = 1 /\ keys[1] \in Digits

\* Mutant of isTextObjectPrefix: the "i" case is missing.
isTextObjectPrefixAround(keys) == keys \in {<<"a">>}

isTextObjectPrefix(keys) == keys \in {<<"i">>, <<"a">>}

isMotionCharPrefix(keys) == keys \in {<<"f">>, <<"t">>, <<"F">>, <<"T">>}


\* --------------------------------------------------------- PuzzleView
statePlaying == "playing"
stateCleared == "cleared"

\* No command string handed to Client.Input.
NoInput == <<>>

\* []string(nil): no lines
NoLines == <<>>

NewPuzzleView(p, nv) ==
    [puzzle |-> p, nvim |-> nv, state |-> statePlaying, keystrokes |-> 0,
     mode |-> "NORMAL", stars |-> NoStar,
     lines |-> NoLines, cursorRow |-> 0, cursorCol |-> 0,
     pendingKeys |-> <<>>, pendingOperator |-> FALSE, pendingNeedsChar |-> FALSE,
     pendingTextObject |-> FALSE, pendingHasCount |-> FALSE, pendingCount |-> <<>>]

\* Mutant of clearPending: pendingOperator is not reset.
clearPendingKeepsOperator(v) ==
    [v EXCEPT !.pendingKeys = <<>>,
              !.pendingNeedsChar = FALSE, !.pendingTextObject = FALSE,
              !.pendingHasCount = FALSE, !.pendingCount = <<>>]

\* Mutant of clearPending: pendingCount is not reset.
clearPendingKeepsCount(v) ==
    [v EXCEPT !.pendingKeys = <<>>, !.pendingOperator = FALSE,
              !.pendingNeedsChar = FALSE, !.pendingTextObject = FALSE,
              !.pendingHasCount = FALSE]

clearPending(v) ==
    [v EXCEPT !.pendingKeys = <<>>, !.pendingOperator = FALSE,
              !.pendingNeedsChar = FALSE, !.pendingTextObject = FALSE,
              !.pendingHasCount = FALSE, !.pendingCount = <<>>]

\* index (1-based) of the first byte of keys that is not a digit
RECURSIVE SkipDigits(_, _)
SkipDigits(keys, i) ==
    IF i <= Len(keys) /\ keys[i] \in Digits THEN SkipDigits(keys, i + 1) ELSE i

\* Mutant of entersInsertAfterChange: a leading count is not skipped.
entersInsertAfterChangeNoCount(keys) ==
    IF keys = <<>> THEN FALSE
    ELSE IF keys[1] # "c" THEN FALSE
    ELSE 2 <= Len(keys)

entersInsertAfterChange(keys) ==
    IF keys = <<>> THEN FALSE
    ELSE LET i == SkipDigits(keys, 1) IN
         IF i > Len(keys) THEN FALSE
         ELSE IF keys[i] # "c" THEN FALSE
         ELSE i + 1 <= Len(keys)

\* the switch of applyImmediateMode: the mode a key is known to enter
ModeKeys ==
    {Str1(c) : c \in {"i", "I", "a", "A", "o", "O", "s", "S", "C", "R", "v", "V", ":", "/", "?"}}
        \cup {<<"<", "C", "-", "v", ">">>}

ModeOfKey(keys) ==
    CASE keys \in {Str1(c) : c \in {"i", "I", "a", "A", "o", "O", "s", "S", "C"}} -> "INSERT"
      [] keys = <<"R">> -> "REPLACE"
      [] keys = <<"v">> -> "VISUAL"
      [] keys = <<"V">> -> "V-LINE"
      [] keys = <<"<", "C", "-", "v", ">">> -> "V-BLOCK"
      [] keys \in {<<":">>, <<"/">>, <<"?">>} -> "COMMAND"

\* Mutant of applyImmediateMode: the escape case is missing.
applyImmediateModeNoEsc(v, keys) ==
    IF v.mode # "NORMAL" THEN v
    ELSE IF keys \in ModeKeys THEN [v EXCEPT !.mode = ModeOfKey(keys)]
    ELSE IF entersInsertAfterChange(keys) THEN [v EXCEPT !.mode = "INSERT"]
    ELSE v

\* Mutant of applyImmediateMode: the table is applied in every mode.
applyImmediateModeAnyMode(v, keys) ==
    IF keys = Esc THEN [v EXCEPT !.mode = "NORMAL"]
    ELSE IF keys \in ModeKeys THEN [v EXCEPT !.mode = ModeOfKey(keys)]
    ELSE IF entersInsertAfterChange(keys) THEN [v EXCEPT !.mode = "INSERT"]
    ELSE v

\* Mutant of applyImmediateMode: the table is looked up with the last key of
\* the command instead of the whole command.
applyImmediateModeLastKey(v, keys) ==
    LET last == IF keys = <<>> THEN keys ELSE <<keys[Len(keys)]>> IN
    IF keys = Esc THEN [v EXCEPT !.mode = "NORMAL"]
    ELSE IF v.mode # "NORMAL" THEN v
    ELSE IF last \in ModeKeys THEN [v EXCEPT !.mode = ModeOfKey(last)]
    ELSE IF entersInsertAfterChange(keys) THEN [v EXCEPT !.mode = "INSERT"]
    ELSE v

applyImmediateMode(v, keys) ==
    IF keys = Esc THEN [v EXCEPT !.mode = "NORMAL"]
    ELSE IF v.mode # "NORMAL" THEN v
    ELSE IF keys \in ModeKeys THEN [v EXCEPT !.mode = ModeOfKey(keys)]
    ELSE IF entersInsertAfterChange(keys) THEN [v EXCEPT !.mode = "INSERT"]
    ELSE v

\* A tea.Cmd of the puzzle view together with the Client.Input call made
\* before it is returned: input is the command string sent to the editor
\* (NoInput if none), sync says whether an nvimSyncMsg tick is scheduled.
NoCmd == [input |-> NoInput, sync |-> FALSE]

scheduleSync == [input |-> NoInput, sync |-> TRUE]

\* inputAndSync without the scheduled synchronization
inputWithoutSync(v, keys) ==
    [input |-> IF v.nvim THEN keys ELSE NoInput, sync |-> FALSE]

inputAndSync(v, keys) ==
    [input |-> IF v.nvim THEN keys ELSE NoInput, sync |-> scheduleSync.sync]

\* handleOperatorPending in which "0" always extends the count
handleOperatorPendingZeroExtends(v, keys) ==
    LET combined == v.pendingKeys \o keys
        send == [v |-> clearPending(v), sent |-> TRUE, input |-> combined]
        wait(w) == [v |-> w, sent |-> FALSE, input |-> NoInput]
    IN  IF v.pendingTextObject THEN send
        ELSE IF v.pendingNeedsChar THEN send
        ELSE IF Len(v.pendingKeys) = 1 /\ keys = v.pendingKeys /\ ~v.pendingHasCount THEN send
        ELSE IF isDigitKey(keys) THEN
            wait([v EXCEPT !.pendingKeys = combined, !.pendingHasCount = TRUE])
        ELSE IF isTextObjectPrefix(keys) THEN
            wait([v EXCEPT !.pendingKeys = combined, !.pendingTextObject = TRUE])
        ELSE IF isMotionCharPrefix(keys) THEN
            wait([v EXCEPT !.pendingKeys = combined, !.pendingNeedsChar = TRUE])
        ELSE send

\* handleOperatorPending that waits for a second key after every prefix key
handleOperatorPendingWaitsAfterPrefix(v, keys) ==
    LET combined == v.pendingKeys \o keys
        send == [v |-> clearPending(v), sent |-> TRUE, input |-> combined]
        wait(w) == [v |-> w, sent |-> FALSE, input |-> NoInput]
    IN  IF v.pendingTextObject THEN send
        ELSE IF v.pendingNeedsChar THEN send
        ELSE IF Len(v.pendingKeys) = 1 /\ keys = v.pendingKeys /\ ~v.pendingHasCount THEN send
        ELSE IF isDigitKey(keys) THEN
            IF keys = <<"0">> /\ ~v.pendingHasCount THEN send
            ELSE wait([v EXCEPT !.pendingKeys = combined, !.pendingHasCount = TRUE])
        ELSE IF isTextObjectPrefix(keys) THEN
            wait([v EXCEPT !.pendingKeys = combined, !.pendingTextObject = TRUE])
        ELSE IF shouldBufferKey(keys) THEN
            wait([v EXCEPT !.pendingKeys = combined, !.pendingNeedsChar = TRUE])
        ELSE send

\* handleOperatorPending in which a second text-object prefix keeps waiting
handleOperatorPendingNestedTextObject(v, keys) ==
    LET combined == v.pendingKeys \o keys
        send == [v |-> clearPending(v), sent |-> TRUE, input |-> combined]
        wait(w) == [v |-> w, sent |-> FALSE, input |-> NoInput]
    IN  IF v.pendingTextObject /\ ~isTextObjectPrefix(keys) THEN send
        ELSE IF v.pendingNeedsChar THEN send
        ELSE IF Len(v.pendingKeys) = 1 /\ keys = v.pendingKeys /\ ~v.pendingHasCount THEN send
        ELSE IF isDigitKey(keys) THEN
            IF keys = <<"0">> /\ ~v.pendingHasCount THEN send
            ELSE wait([v EXCEPT !.pendingKeys = combined, !.pendingHasCount = TRUE])
        ELSE IF isTextObjectPrefix(keys) THEN
            wait([v EXCEPT !.pendingKeys = combined, !.pendingTextObject = TRUE])
        ELSE IF isMotionCharPrefix(keys) THEN
            wait([v EXCEPT !.pendingKeys = combined, !.pendingNeedsChar = TRUE])
        ELSE send

\* Result: the view, whether the command was sent, and the string sent.
handleOperatorPending(v, keys) ==
    LET combined == v.pendingKeys \o keys
        send == [v |-> clearPending(v), sent |-> TRUE, input |-> combined]
        wait(w) == [v |-> w, sent |-> FALSE, input |-> NoInput]
    IN  IF v.pendingTextObject THEN send
        ELSE IF v.pendingNeedsChar THEN send
        ELSE IF Len(v.pendingKeys) = 1 /\ keys = v.pendingKeys /\ ~v.pendingHasCount THEN send
        ELSE IF isDigitKey(keys) THEN
            IF keys = <<"0">> /\ ~v.pendingHasCount THEN send
            ELSE wait([v EXCEPT !.pendingKeys = combined, !.pendingHasCount = TRUE])
        ELSE IF isTextObjectPrefix(keys) THEN
            wait([v EXCEPT !.pendingKeys = combined, !.pendingTextObject = TRUE])
        ELSE IF isMotionCharPrefix(keys) THEN
            wait([v EXCEPT !.pendingKeys = combined, !.pendingNeedsChar = TRUE])
        ELSE send

\* handleNvimInput after the counter was advanced: mode is not NORMAL
handleOtherMode(v, keys) ==
    LET w == applyImmediateMode(clearPending(v), keys)
    IN  [v |-> w, cmd |-> inputAndSync(w, keys)]

\* handlePendingKeys in which an operator letter after a buffered prefix key
\* starts an operator instead of completing the command
handlePendingKeysStartsOperator(v, keys) ==
    IF keys = Esc THEN
        LET w == applyImmediateMode(clearPending(v), keys)
        IN  [v |-> w, cmd |-> inputAndSync(w, keys)]
    ELSE IF v.pendingOperator THEN
        LET combined == v.pendingKeys \o keys
            r == handleOperatorPending(v, keys)
        IN  IF r.sent
            THEN [v |-> applyImmediateMode(r.v, combined),
                  cmd |-> [input |-> r.input, sync |-> scheduleSync.sync]]
            ELSE [v |-> r.v, cmd |-> NoCmd]
    ELSE IF shouldStartOperator(keys) THEN
        [v |-> [v EXCEPT !.pendingKeys = v.pendingKeys \o keys,
                         !.pendingOperator = TRUE,
                         !.pendingNeedsChar = FALSE],
         cmd |-> NoCmd]
    ELSE
        LET combined == v.pendingKeys \o keys
            w == applyImmediateMode(clearPending(v), combined)
        IN  [v |-> w, cmd |-> inputAndSync(w, combined)]

\* handleNvimInput after the counter was advanced: pendingKeys is not empty
handlePendingKeys(v, keys) ==
    IF keys = Esc THEN
        LET w == applyImmediateMode(clearPending(v), keys)
        IN  [v |-> w, cmd |-> inputAndSync(w, keys)]
    ELSE IF v.pendingOperator THEN
        LET combined == v.pendingKeys \o keys
            r == handleOperatorPending(v, keys)
        IN  IF r.sent
            THEN [v |-> applyImmediateMode(r.v, combined),
                  cmd |-> [input |-> r.input, sync |-> scheduleSync.sync]]
            ELSE [v |-> r.v, cmd |-> NoCmd]
    ELSE
        LET combined == v.pendingKeys \o keys
            w == applyImmediateMode(clearPending(v), combined)
        IN  [v |-> w, cmd |-> inputAndSync(w, combined)]

\* handlePendingCount in which an operator or prefix key does not carry the
\* count
handlePendingCountDropsCount(v, keys) ==
    IF keys = Esc THEN
        LET w == applyImmediateMode([v EXCEPT !.pendingCount = <<>>], keys)
        IN  [v |-> w, cmd |-> inputAndSync(w, keys)]
    ELSE IF isDigitKey(keys) THEN
        [v |-> [v EXCEPT !.pendingCount = @ \o keys], cmd |-> NoCmd]
    ELSE IF shouldStartOperator(keys) THEN
        [v |-> [v EXCEPT !.pendingKeys = keys,
                         !.pendingOperator = TRUE, !.pendingCount = <<>>],
         cmd |-> NoCmd]
    ELSE IF shouldBufferKey(keys) THEN
        [v |-> [v EXCEPT !.pendingKeys = keys,
                         !.pendingNeedsChar = keyNeedsChar(keys), !.pendingCount = <<>>],
         cmd |-> NoCmd]
    ELSE
        LET combined == v.pendingCount \o keys
            w == applyImmediateMode([v EXCEPT !.pendingCount = <<>>], combined)
        IN  [v |-> w, cmd |-> inputAndSync(w, combined)]

\* handlePendingCount in which the count stays pending next to the keys it
\* was moved to
handlePendingCountKeepsCount(v, keys) ==
    IF keys = Esc THEN
        LET w == applyImmediateMode([v EXCEPT !.pendingCount = <<>>], keys)
        IN  [v |-> w, cmd |-> inputAndSync(w, keys)]
    ELSE IF isDigitKey(keys) THEN
        [v |-> [v EXCEPT !.pendingCount = @ \o keys], cmd |-> NoCmd]
    ELSE IF shouldStartOperator(keys) THEN
        [v |-> [v EXCEPT !.pendingKeys = v.pendingCount \o keys,
                         !.pendingOperator = TRUE],
         cmd |-> NoCmd]
    ELSE IF shouldBufferKey(keys) THEN
        [v |-> [v EXCEPT !.pendingKeys = v.pendingCount \o keys,
                         !.pendingNeedsChar = keyNeedsChar(keys)],
         cmd |-> NoCmd]
    ELSE
        LET combined == v.pendingCount \o keys
            w == applyImmediateMode([v EXCEPT !.pendingCount = <<>>], combined)
        IN  [v |-> w, cmd |-> inputAndSync(w, combined)]

\* handleNvimInput after the counter was advanced: a leading count is pending
handlePendingCount(v, keys) ==
    IF keys = Esc THEN
        LET w == applyImmediateMode([v EXCEPT !.pendingCount = <<>>], keys)
        IN  [v |-> w, cmd |-> inputAndSync(w, keys)]
    ELSE IF isDigitKey(keys) THEN
        [v |-> [v EXCEPT !.pendingCount = @ \o keys], cmd |-> NoCmd]
    ELSE IF shouldStartOperator(keys) THEN
        [v |-> [v EXCEPT !.pendingKeys = v.pendingCount \o keys,
                         !.pendingOperator = TRUE, !.pendingCount = <<>>],
         cmd |-> NoCmd]
    ELSE IF shouldBufferKey(keys) THEN
        [v |-> [v EXCEPT !.pendingKeys = v.pendingCount \o keys,
                         !.pendingNeedsChar = keyNeedsChar(keys), !.pendingCount = <<>>],
         cmd |-> NoCmd]
    ELSE
        LET combined == v.pendingCount \o keys
            w == applyImmediateMode([v EXCEPT !.pendingCount = <<>>], combined)
        IN  [v |-> w, cmd |-> inputAndSync(w, combined)]

\* handleIdle in which every digit, "0" included, starts a count
handleIdleZeroStartsCount(v, keys) ==
    IF isDigitKey(keys) THEN [v |-> [v EXCEPT !.pendingCount = keys], cmd |-> NoCmd]
    ELSE IF shouldStartOperator(keys) THEN
        [v |-> [v EXCEPT !.pendingKeys = keys, !.pendingOperator = TRUE], cmd |-> NoCmd]
    ELSE IF shouldBufferKey(keys) THEN
        [v |-> [v EXCEPT !.pendingKeys = keys, !.pendingNeedsChar = keyNeedsChar(keys)],
         cmd |-> NoCmd]
    ELSE LET w == applyImmediateMode(v, keys)
         IN  [v |-> w, cmd |-> inputAndSync(w, keys)]

\* handleNvimInput after the counter was advanced: NORMAL, nothing pending
handleIdle(v, keys) ==
    IF isDigitKey(keys) THEN
        IF keys # <<"0">> THEN [v |-> [v EXCEPT !.pendingCount = keys], cmd |-> NoCmd]
        ELSE LET w == applyImmediateMode(v, keys)
             IN  [v |-> w, cmd |-> inputAndSync(w, keys)]
    ELSE IF shouldStartOperator(keys) THEN
        [v |-> [v EXCEPT !.pendingKeys = keys, !.pendingOperator = TRUE], cmd |-> NoCmd]
    ELSE IF shouldBufferKey(keys) THEN
        [v |-> [v EXCEPT !.pendingKeys = keys, !.pendingNeedsChar = keyNeedsChar(keys)],
         cmd |-> NoCmd]
    ELSE LET w == applyImmediateMode(v, keys)
         IN  [v |-> w, cmd |-> inputAndSync(w, keys)]

\* Mutant of countKeystroke: counts a keystroke only when nothing is pending,
\* that is once per command instead of once per key event.
countKeystrokePerCommand(v) ==
    IF v.pendingKeys # <<>> \/ v.pendingCount # <<>> THEN v
    ELSE [v EXCEPT !.keystrokes = @ + 1]

countKeystroke(v) == [v EXCEPT !.keystrokes = @ + 1]

handleNvimInput(v, keys) ==
    IF keys = <<>> THEN [v |-> v, cmd |-> NoCmd]
    ELSE LET w == countKeystroke(v) IN
         IF w.mode # "NORMAL" THEN handleOtherMode(w, keys)
         ELSE IF w.pendingKeys # <<>> THEN handlePendingKeys(w, keys)
         ELSE IF w.pendingCount # <<>> THEN handlePendingCount(w, keys)
         ELSE handleIdle(w, keys)


\* ------------------------------------------------------- key messages
\* tea.KeyMsg: its Type and, for KeyRunes, its Runes.
RuneMsg(c) == [Type |-> "KeyRunes", Runes |-> <<c>>]
SpecialMsg(t) == [Type |-> t, Runes |-> <<>>]

\* Names tea.KeyMsg.String() gives the key types.
KeyNames ==
    [t \in {"KeyEsc", "KeyEnter", "KeyTab", "KeyBackspace", "KeyDelete", "KeyUp", "KeyDown",
            "KeyLeft", "KeyRight", "KeyHome", "KeyEnd", "KeyPgUp", "KeyPgDown", "KeySpace",
            "KeyCtrlQ", "KeyCtrlR", "KeyCtrlH", "KeyCtrlO", "KeyCtrlV", "KeyF1"} |->
        CASE t = "KeyEsc" -> <<"e", "s", "c">>
          [] t = "KeyEnter" -> <<"e", "n", "t", "e", "r">>
          [] t = "KeyTab" -> <<"t", "a", "b">>
          [] t = "KeyBackspace" -> <<"b", "a", "c", "k", "s", "p", "a", "c", "e">>
          [] t = "KeyDelete" -> <<"d", "e", "l", "e", "t", "e">>
          [] t = "KeyUp" -> <<"u", "p">>
          [] t = "KeyDown" -> <<"d", "o", "w", "n">>
          [] t = "KeyLeft" -> <<"l", "e", "f", "t">>
          [] t = "KeyRight" -> <<"r", "i", "g", "h", "t">>
          [] t = "KeyHome" -> <<"h", "o", "m", "e">>
          [] t = "KeyEnd" -> <<"e", "n", "d">>
          [] t = "KeyPgUp" -> <<"p", "g", "u", "p">>
          [] t = "KeyPgDown" -> <<"p", "g", "d", "o", "w", "n">>
          [] t = "KeySpace" -> <<" ">>
          [] t = "KeyCtrlQ" -> CtrlPrefix \o <<"q">>
          [] t = "KeyCtrlR" -> CtrlPrefix \o <<"r">>
          [] t = "KeyCtrlH" -> CtrlPrefix \o <<"h">>
          [] t = "KeyCtrlO" -> CtrlPrefix \o <<"o">>
          [] t = "KeyCtrlV" -> CtrlPrefix \o <<"v">>
          [] t = "KeyF1" -> <<"f", "1">>]

KeyString(msg) == IF msg.Type = "KeyRunes" THEN msg.Runes ELSE KeyNames[msg.Type]

translateKey(msg) ==
    CASE msg.Type = "KeyEsc" -> Esc
      [] msg.Type = "KeyEnter" -> <<"<", "C", "R", ">">>
      [] msg.Type = "KeyTab" -> <<"<", "T", "a", "b", ">">>
      [] msg.Type = "KeyBackspace" -> <<"<", "B", "S", ">">>
      [] msg.Type = "KeyDelete" -> <<"<", "D", "e", "l", ">">>
      [] msg.Type = "KeyUp" -> <<"<", "U", "p", ">">>
      [] msg.Type = "KeyDown" -> <<"<", "D", "o", "w", "n", ">">>
      [] msg.Type = "KeyLeft" -> <<"<", "L", "e", "f", "t", ">">>
      [] msg.Type = "KeyRight" -> <<"<", "R", "i", "g", "h", "t", ">">>
      [] msg.Type = "KeyHome" -> <<"<", "H", "o", "m", "e", ">">>
      [] msg.Type = "KeyEnd" -> <<"<", "E", "n", "d", ">">>
      [] msg.Type = "KeyPgUp" -> <<"<", "P", "a", "g", "e", "U", "p", ">">>
      [] msg.Type = "KeyPgDown" -> <<"<", "P", "a", "g", "e", "D", "o", "w", "n", ">">>
      [] msg.Type = "KeySpace" -> <<" ">>
      [] msg.Type = "KeyRunes" -> EscapeLT(msg.Runes)
      [] OTHER ->
            LET str == KeyString(msg) IN
            IF HasPrefix(str, CtrlPrefix)
            THEN <<"<", "C", "-">> \o TrimPrefix(str, CtrlPrefix) \o <<">">>
            ELSE <<>>

\* An unknown CSI sequence "ESC [ code ; mod u": the rune of its code and
\* its modifier parameter.
ctrlKeyString(r) == <<"<", "C", "-", r, ">">>

translateCSIu(msg) ==
    IF ((msg.Mod - 1) \div 4) % 2 # 0 THEN ctrlKeyString(msg.Rune) ELSE <<msg.Rune>>

\* ------------------------------------------------------ synchronization
\* The editor at one synchronization: whether GetLines succeeds, whether
\* GetMode succeeds, and the mode token the editor is in. The text
\* GetBufferText returns is a text, or ReadFailed on an error.
ReadFailed == <<"error">>

\* syncReadBuffer after GetLines: the cursor is stored if GetCursor succeeds
readCursor(v, rd) ==
    IF rd.cursorOK
    THEN [v EXCEPT !.cursorRow = rd.cursor[1], !.cursorCol = rd.cursor[2]]
    ELSE v

\* Mutant of syncReadBuffer: the error check of GetMode is inverted.
syncReadBufferInverted(v, rd) ==
    IF ~v.nvim THEN v
    ELSE IF ~rd.linesOK THEN v
    ELSE LET w == readCursor([v EXCEPT !.lines = rd.lines], rd)
         IN  IF ~rd.modeOK THEN [w EXCEPT !.mode = ModeDisplayName(rd.mode)]
             ELSE w

\* syncReadBuffer that stores what GetLines returned before it looks at the
\* error
syncReadBufferStoresFailedLines(v, rd) ==
    IF ~v.nvim THEN v
    ELSE IF ~rd.linesOK THEN [v EXCEPT !.lines = rd.lines]
    ELSE LET w == readCursor([v EXCEPT !.lines = rd.lines], rd)
         IN  IF rd.modeOK THEN [w EXCEPT !.mode = ModeDisplayName(rd.mode)]
             ELSE w

syncReadBuffer(v, rd) ==
    IF ~v.nvim THEN v
    ELSE IF ~rd.linesOK THEN v
    ELSE LET w == readCursor([v EXCEPT !.lines = rd.lines], rd)
         IN  IF rd.modeOK THEN [w EXCEPT !.mode = ModeDisplayName(rd.mode)]
             ELSE w

\* syncCheckClear without the completion check
syncCheckClearAnyText(v, res, text) ==
    IF v.state # statePlaying \/ ~v.nvim THEN [v |-> v, results |-> res]
    ELSE IF text = ReadFailed THEN [v |-> v, results |-> res]
    ELSE LET st == Score(v.keystrokes, v.puzzle.Par) IN
         [v |-> [v EXCEPT !.state = stateCleared, !.stars = st],
          results |-> SetBest(res, v.puzzle.ID, st, v.keystrokes)]

\* syncCheckClear that stores the attempt whenever the buffer text was read
syncCheckClearStoresEveryRead(v, res, text) ==
    IF v.state # statePlaying \/ ~v.nvim THEN [v |-> v, results |-> res]
    ELSE IF text = ReadFailed THEN [v |-> v, results |-> res]
    ELSE LET st == Score(v.keystrokes, v.puzzle.Par) IN
         IF Validate(text, v.puzzle.After)
         THEN [v |-> [v EXCEPT !.state = stateCleared, !.stars = st],
               results |-> SetBest(res, v.puzzle.ID, st, v.keystrokes)]
         ELSE [v |-> v, results |-> SetBest(res, v.puzzle.ID, st, v.keystrokes)]

\* syncCheckClear that skips the completion check while keys are buffered
syncCheckClearSkipsWhenPending(v, res, text) ==
    IF v.state # statePlaying \/ ~v.nvim THEN [v |-> v, results |-> res]
    ELSE IF text = ReadFailed THEN [v |-> v, results |-> res]
    ELSE IF Validate(text, v.puzzle.After) /\ v.pendingKeys = <<>> /\ v.pendingCount = <<>>
    THEN LET st == Score(v.keystrokes, v.puzzle.Par) IN
         [v |-> [v EXCEPT !.state = stateCleared, !.stars = st],
          results |-> SetBest(res, v.puzzle.ID, st, v.keystrokes)]
    ELSE [v |-> v, results |-> res]

\* Result: the view and the store's results.
syncCheckClear(v, res, text) ==
    IF v.state # statePlaying \/ ~v.nvim THEN [v |-> v, results |-> res]
    ELSE IF text = ReadFailed THEN [v |-> v, results |-> res]
    ELSE IF Validate(text, v.puzzle.After)
    THEN LET st == Score(v.keystrokes, v.puzzle.Par) IN
         [v |-> [v EXCEPT !.state = stateCleared, !.stars = st],
          results |-> SetBest(res, v.puzzle.ID, st, v.keystrokes)]
    ELSE [v |-> v, results |-> res]

\* The byte 0x1b that LoadPuzzle feeds the editor.
EscByte == "0x1b"

\* Client.LoadPuzzle: the command string it sends (none when a call before
\* the final Input fails).
LoadPuzzle(ok) == IF ok THEN <<EscByte>> ELSE NoInput


\* ------------------------------------------------- PuzzleView.Update
\* Result of Update for a key message: the view, the command (input, sync),
\* the puzzleExitMsg emitted (a sequence of at most one next flag), whether
\* the attempt was started again, and the key string handed to
\* handleNvimInput (NoKeys if the message did not reach it).
UpdateResult(v, cmd, exit, restart, keys) ==
    [v |-> v, cmd |-> cmd, exit |-> exit, restart |-> restart, keys |-> keys]

\* Restart without the reset of the keystroke counter
RestartKeepsKeystrokes(v, loadOK, rd) ==
    LET w == clearPending([v EXCEPT !.state = statePlaying])
    IN  UpdateResult(syncReadBuffer(w, rd), [input |-> LoadPuzzle(loadOK), sync |-> FALSE],
                     <<>>, TRUE, NoKeys)

\* the retry (cleared) and reset (playing) branches
Restart(v, loadOK, rd) ==
    LET w == clearPending([v EXCEPT !.state = statePlaying, !.keystrokes = 0])
    IN  UpdateResult(syncReadBuffer(w, rd), [input |-> LoadPuzzle(loadOK), sync |-> FALSE],
                     <<>>, TRUE, NoKeys)

UpdateKeyMsg(v, msg, loadOK, rd) ==
    LET str == KeyString(msg) IN
    IF v.state = stateCleared THEN
        IF str \in {KeyNames["KeyEnter"], <<"q">>, KeyNames["KeyEsc"]}
        THEN UpdateResult(clearPending(v), NoCmd, <<str = KeyNames["KeyEnter"]>>, FALSE, NoKeys)
        ELSE IF str \in {<<"r">>, KeyNames["KeyCtrlR"]}
        THEN Restart(v, loadOK, rd)
        ELSE UpdateResult(v, NoCmd, <<>>, FALSE, NoKeys)
    ELSE IF str = KeyNames["KeyCtrlQ"]
        THEN UpdateResult(clearPending(v), NoCmd, <<FALSE>>, FALSE, NoKeys)
    ELSE IF str = KeyNames["KeyCtrlR"]
        THEN Restart(v, loadOK, rd)
    ELSE IF str \in {KeyNames["KeyCtrlH"], KeyNames["KeyCtrlO"]}
        THEN UpdateResult(v, NoCmd, <<>>, FALSE, NoKeys)
    ELSE LET keys == translateKey(msg)
             r == handleNvimInput(v, keys)
         IN  UpdateResult(r.v, r.cmd, <<>>, FALSE, keys)

\* the default branch of Update: a message that is not a key message
UpdateCSIu(v, msg) ==
    LET keys == translateCSIu(msg)
        r == handleNvimInput(v, keys)
    IN  IF keys # <<>> THEN UpdateResult(r.v, r.cmd, <<>>, FALSE, keys)
        ELSE UpdateResult(v, NoCmd, <<>>, FALSE, NoKeys)

\* ------------------------------------------------------------- inputs
KeyMsgs ==
    {RuneMsg(c) : c \in {"w", "i", "d", "c", "0", "2", "f"}}
        \cup {SpecialMsg(t) : t \in {"KeyEsc", "KeyCtrlR", "KeyCtrlQ", "KeyCtrlH", "KeyF1"}}

CSIMsgs == {[Rune |-> "w", Mod |-> 1], [Rune |-> "v", Mod |-> 5]}

\* mode tokens the editor may answer
RawModes == {<<"n">>, <<"i">>, <<"r">>}

\* buffer texts the editor may answer
Texts == {<<"a", "\n">>, <<"b">>}

\* no mode token: GetMode failed or was not called
NoMode == <<>>

\* buffer lines the editor may answer
ScreenLines == {<<<<"a">>>>, <<<<"b">>>>}

\* cursor positions (row, col) the editor may answer
ZeroCursor == <<0, 0>>

Cursors == {ZeroCursor, <<0, 1>>}

\* the read in which GetLines fails: nothing else is called
FailedRead ==
    [linesOK |-> FALSE, lines |-> NoLines, cursorOK |-> FALSE, cursor |-> ZeroCursor,
     modeOK |-> FALSE, mode |-> NoMode]

\* GetCursor and GetMode are called only after GetLines succeeded; a call
\* answers exactly when it succeeds. L and C are the lines and the cursor
\* positions the editor may answer.
EditorReads(L, C) ==
    {FailedRead} \cup
    {[linesOK |-> TRUE, lines |-> l, cursorOK |-> c # <<>>,
      cursor |-> IF c # <<>> THEN c ELSE ZeroCursor,
      modeOK |-> m # NoMode, mode |-> m] :
        l \in L, c \in C \cup {<<>>}, m \in RawModes \cup {NoMode}}

ScreenReads == EditorReads(ScreenLines, Cursors)

\* The reads of the specifications that do not observe the displayed buffer:
\* one buffer, the cursor at its origin.
SyncReads == {rd \in EditorReads({<<<<"b">>>>}, {ZeroCursor}) : rd.cursorOK = rd.linesOK}

\* the editor is not read
Unread == <<"unread">>

NoRead ==
    [linesOK |-> FALSE, lines |-> NoLines, cursorOK |-> FALSE, cursor |-> ZeroCursor,
     modeOK |-> FALSE, mode |-> Unread]

TextReads == Texts \cup {ReadFailed}

\* GetBufferText is called only while the view is playing
TextAnswers(v) == IF v.state = statePlaying THEN TextReads ELSE {ReadFailed}

\* whether Update answers the key message by starting the attempt again
Restarts(v, msg) ==
    IF v.state = stateCleared THEN KeyString(msg) \in {<<"r">>, KeyNames["KeyCtrlR"]}
    ELSE KeyString(msg) = KeyNames["KeyCtrlR"]

\* the editor answers a key message asks for: none unless it restarts
LoadAnswers(v, msg) == IF Restarts(v, msg) THEN BOOLEAN ELSE {TRUE}

RestartReads(v, msg) ==
    IF Restarts(v, msg) THEN SyncReads ELSE {NoRead}

\* ------------------------------------------------------------ the puzzles
\* App.puzzles: two puzzles of level 1, one of each of the levels 2, 3 and
\* 5, none of level 4.
Puzzles ==
    <<ThePuzzle,
      [ID |-> "p2", Track |-> 1, Level |-> 1, Par |-> 1, Before |-> <<"a">>, After |-> <<"b">>],
      [ID |-> "p3", Track |-> 1, Level |-> 2, Par |-> 1, Before |-> <<"b">>, After |-> <<"a">>],
      [ID |-> "p4", Track |-> 1, Level |-> 3, Par |-> 1, Before |-> <<"b">>, After |-> <<"a">>],
      [ID |-> "p5", Track |-> 1, Level |-> 5, Par |-> 1, Before |-> <<"b">>, After |-> <<"a">>]>>

RECURSIVE SortInts(_)
SortInts(S) ==
    IF S = {} THEN <<>>
    ELSE LET m == CHOOSE x \in S : \A y \in S : x <= y
         IN  <<m>> \o SortInts(S \ {m})

GetTracks(puzzles) == SortInts({puzzles[i].Track : i \in DOMAIN puzzles})

GetLevelsForTrack(puzzles, track) ==
    SortInts({puzzles[i].Level : i \in {j \in DOMAIN puzzles : puzzles[j].Track = track}})

GetPuzzlesForLevel(puzzles, level) == SelectSeq(puzzles, LAMBDA p : p.Level = level)

\* ---------------------------------------------------------------- App
screenTrack == "track"
screenPuzzle == "puzzle"

viewLevels == "levels"
viewPuzzles == "puzzles"

\* the flat list of levels NewTrackView builds
RECURSIVE LevelEntries(_, _)
LevelEntries(puzzles, tracks) ==
    IF tracks = <<>> THEN <<>>
    ELSE LET levels == GetLevelsForTrack(puzzles, Head(tracks))
         IN  [i \in 1..Len(levels) |-> [track |-> Head(tracks), level |-> levels[i]]]
                \o LevelEntries(puzzles, Tail(tracks))

NewTrackView ==
    [mode |-> viewLevels, allLevels |-> LevelEntries(Puzzles, GetTracks(Puzzles)),
     puzzleList |-> <<>>, cursor |-> 0, confirmReset |-> FALSE]

\* -------------------------------------------------------------- state
VARIABLES
    pv,         \* App.puzzleView, the view of the running session
    results,    \* progress.Store.Results
    syncs,      \* nvimSyncMsg ticks scheduled by the running session and not
                \* yet delivered
    inits,      \* initPuzzleMsg messages not yet delivered
    input,      \* command string handed to Client.Input by the last step
    exit,       \* puzzleExitMsg emitted by the last step (its next flag)
    key,        \* key string the last step handed to handleNvimInput
    read,       \* history: what syncReadBuffer read from the editor in the
                \* last step (NoRead if it was not called)
    validated,  \* history: syncCheckClear read the buffer text in the last
                \* step and the text passed puzzle.Validate against the goal
    keyEvents,  \* history: handleNvimInput calls with a non-empty key string
                \* since the last start, retry or reset
    screen,     \* App.screen
    nvim,       \* App.nvim is not nil
    engines,    \* editor processes started by New and not closed
    trackView,  \* App.trackView
    exits,      \* puzzleExitMsg messages not yet delivered, by next flag
    selected,   \* selectedPuzzle messages not yet delivered, by puzzle index
    stale,      \* nvimSyncMsg ticks not yet delivered whose session has ended
    inputErr,   \* history: the Client.Input call of the last step failed
    submitted   \* history: the results handed to Store.SetBest by direct
                \* calls of it

viewVars == <<pv, results, syncs, inits, input, exit, key, read, validated, keyEvents>>

appVars == <<screen, nvim, engines, trackView, exits, selected, stale, inputErr, submitted>>

vars == <<pv, results, syncs, inits, input, exit, key, read, validated, keyEvents,
          screen, nvim, engines, trackView, exits, selected, stale, inputErr, submitted>>

NoResults == [id \in {} |-> [Stars |-> NoStar, Keystrokes |-> 0]]

NoExits == [next \in BOOLEAN |-> 0]

NoSelected == [i \in 1..Len(Puzzles) |-> 0]

\* the state of the puzzle view's variables right after NewPuzzleView(p, nv)
\* and the Init command of the view
StartView(p) ==
    /\ pv = NewPuzzleView(p, TRUE)
    /\ syncs = 0
    /\ inits = 1
    /\ input = NoInput
    /\ exit = <<>>
    /\ key = NoKeys
    /\ read = NoRead
    /\ validated = FALSE
    /\ keyEvents = 0

\* App.updateTrack has answered selectedPuzzle: a new view for the puzzle on a
\* running editor, its Init command (initPuzzleMsg) not yet delivered.
Init ==
    /\ StartView(ThePuzzle)
    /\ results = NoResults
    /\ screen = screenPuzzle
    /\ nvim = TRUE
    /\ engines = 1
    /\ trackView = NewTrackView
    /\ exits = NoExits
    /\ selected = NoSelected
    /\ stale = 0
    /\ inputErr = FALSE
    /\ submitted = {}

\* PuzzleView.Update, initPuzzleMsg
InitPuzzle(loadOK, rd) ==
    /\ inits > 0
    /\ inits' = inits - 1
    /\ pv' = syncReadBuffer(pv, rd)
    /\ input' = LoadPuzzle(loadOK)
    /\ exit' = <<>>
    /\ key' = NoKeys
    /\ read' = rd
    /\ validated' = FALSE
    /\ UNCHANGED <<results, syncs, keyEvents>>

\* the effects of syncReadBuffer and syncCheckClear on the view and the store
Synchronize(rd, text) ==
    /\ LET r == syncCheckClear(syncReadBuffer(pv, rd), results, text)
       IN  pv' = r.v /\ results' = r.results
    /\ input' = NoInput
    /\ exit' = <<>>
    /\ key' = NoKeys
    /\ read' = rd
    /\ validated' = (text # ReadFailed /\ Validate(text, pv.puzzle.After))
    /\ UNCHANGED <<inits, keyEvents>>

\* PuzzleView.Update, nvimSyncMsg
Sync(rd, text) ==
    /\ syncs > 0
    /\ syncs' = syncs - 1
    /\ Synchronize(rd, text)

\* the effects of one Update of the puzzle view for a key
Deliver(r) ==
    /\ r.v.keystrokes <= MaxKeystrokes
    /\ syncs + (IF r.cmd.sync THEN 1 ELSE 0) <= MaxSyncs
    /\ pv' = r.v
    /\ input' = r.cmd.input
    /\ syncs' = syncs + (IF r.cmd.sync THEN 1 ELSE 0)
    /\ exit' = r.exit
    /\ key' = r.keys
    /\ validated' = FALSE
    /\ keyEvents' = IF r.restart THEN 0 ELSE IF r.keys # NoKeys THEN keyEvents + 1 ELSE keyEvents
    /\ UNCHANGED <<results, inits>>

\* PuzzleView.Update, tea.KeyMsg
KeyMsg(msg, loadOK, rd) ==
    /\ Deliver(UpdateKeyMsg(pv, msg, loadOK, rd))
    /\ read' = rd

\* PuzzleView.Update, an unknown CSI sequence
CSIu(msg) == Deliver(UpdateCSIu(pv, msg)) /\ read' = NoRead

\* One puzzle session: the messages PuzzleView.Update handles.
Next ==
    \/ \E loadOK \in BOOLEAN, rd \in SyncReads :
         InitPuzzle(loadOK, rd) /\ UNCHANGED appVars
    \/ \E rd \in SyncReads, text \in TextAnswers(pv) :
         Sync(rd, text) /\ UNCHANGED appVars
    \/ \E msg \in KeyMsgs :
         \E loadOK \in LoadAnswers(pv, msg), rd \in RestartReads(pv, msg) :
            KeyMsg(msg, loadOK, rd) /\ UNCHANGED appVars
    \/ \E msg \in CSIMsgs : CSIu(msg) /\ UNCHANGED appVars

Spec == Init /\ [][Next]_vars

\* ------------------------------------------------------ progress.Store
GetBest(res, puzzleID) ==
    IF puzzleID \in DOMAIN res THEN res[puzzleID] ELSE [Stars |-> NoStar, Keystrokes |-> 0]

\* IsLevelUnlocked that asks for a rating of every puzzle of a lower level
IsLevelUnlockedAllBefore(res, level, allPuzzles) ==
    \A i \in 1..Len(allPuzzles) :
        allPuzzles[i].Level < level => ~(GetBest(res, allPuzzles[i].ID).Stars < OneStar)

IsLevelUnlocked(res, level, allPuzzles) ==
    IF level <= 1 THEN TRUE
    ELSE LET prevPuzzles == GetPuzzlesForLevel(allPuzzles, level - 1)
         IN  IF Len(prevPuzzles) = 0 THEN TRUE
             ELSE \A i \in 1..Len(prevPuzzles) :
                     ~(GetBest(res, prevPuzzles[i].ID).Stars < OneStar)

\* ------------------------------------------------------------ TrackView
max(a, b) == IF a > b THEN a ELSE b
min(a, b) == IF a < b THEN a ELSE b

maxCursor(v) ==
    IF v.mode = viewLevels THEN max(0, Len(v.allLevels) - 1)
    ELSE max(0, Len(v.puzzleList) - 1)

\* 0-based index of the first level entry of the level, or none (-1)
LevelIndex(allLevels, level) ==
    LET hits == {i \in 1..Len(allLevels) : allLevels[i].level = level}
    IN  IF hits = {} THEN -1 ELSE (CHOOSE i \in hits : \A j \in hits : i <= j) - 1

\* Result of a TrackView update: the view, the selectedPuzzle emitted (a
\* sequence of at most one puzzle), whether Store.Reset was called and
\* whether tea.Quit was returned.
TrackResult(v, sel, reset, quit) == [v |-> v, selected |-> sel, reset |-> reset, quit |-> quit]

selectItem(v, res) ==
    IF v.mode = viewLevels THEN
        IF v.cursor < Len(v.allLevels) THEN
            LET entry == v.allLevels[v.cursor + 1] IN
            IF ~IsLevelUnlocked(res, entry.level, Puzzles)
            THEN TrackResult(v, <<>>, FALSE, FALSE)
            ELSE TrackResult([v EXCEPT !.puzzleList = GetPuzzlesForLevel(Puzzles, entry.level),
                                       !.mode = viewPuzzles, !.cursor = 0],
                             <<>>, FALSE, FALSE)
        ELSE TrackResult(v, <<>>, FALSE, FALSE)
    ELSE IF v.cursor < Len(v.puzzleList)
         THEN TrackResult(v, <<v.puzzleList[v.cursor + 1]>>, FALSE, FALSE)
         ELSE TrackResult(v, <<>>, FALSE, FALSE)

back(v) ==
    IF v.mode = viewPuzzles THEN
        LET i == IF Len(v.puzzleList) > 0
                 THEN LevelIndex(v.allLevels, v.puzzleList[1].Level)
                 ELSE 0
        IN  [v EXCEPT !.cursor = IF i = -1 THEN @ ELSE i, !.mode = viewLevels]
    ELSE v

\* TrackView.Update, tea.KeyMsg
TrackViewUpdate(v, msg, res) ==
    LET str == KeyString(msg) IN
    IF v.confirmReset THEN
        IF str \in {<<"y">>, <<"Y">>}
        THEN TrackResult(NewTrackView, <<>>, TRUE, FALSE)
        ELSE TrackResult([v EXCEPT !.confirmReset = FALSE], <<>>, FALSE, FALSE)
    ELSE IF str \in {KeyNames["KeyUp"], <<"k">>}
        THEN TrackResult([v EXCEPT !.cursor = IF @ > 0 THEN @ - 1 ELSE @], <<>>, FALSE, FALSE)
    ELSE IF str \in {KeyNames["KeyDown"], <<"j">>}
        THEN TrackResult([v EXCEPT !.cursor = min(@ + 1, maxCursor(v))], <<>>, FALSE, FALSE)
    ELSE IF str = KeyNames["KeyCtrlR"]
        THEN TrackResult([v EXCEPT !.confirmReset = TRUE], <<>>, FALSE, FALSE)
    ELSE IF str \in {KeyNames["KeyEnter"], <<"l">>}
        THEN selectItem(v, res)
    ELSE IF str \in {KeyNames["KeyEsc"], <<"h">>, KeyNames["KeyBackspace"]}
        THEN TrackResult(back(v), <<>>, FALSE, FALSE)
    ELSE IF str = <<"q">>
        THEN IF v.mode = viewLevels THEN TrackResult(v, <<>>, FALSE, TRUE)
             ELSE TrackResult(back(v), <<>>, FALSE, FALSE)
    ELSE TrackResult(v, <<>>, FALSE, FALSE)

trackViewForLevel(current) ==
    LET i == LevelIndex(NewTrackView.allLevels, current.Level)
    IN  [NewTrackView EXCEPT !.cursor = IF i = -1 THEN 0 ELSE i]

\* Result: the next puzzle of the level (a sequence of at most one puzzle)
nextPuzzleInLevel(all, current) ==
    LET hits == {i \in 1..Len(all) : all[i].ID = current.ID} IN
    IF hits = {} THEN <<>>
    ELSE LET index == CHOOSE i \in hits : \A j \in hits : i <= j IN
         IF index + 1 > Len(all) THEN <<>>
         ELSE IF all[index + 1].Track # current.Track \/ all[index + 1].Level # current.Level
              THEN <<>>
              ELSE <<all[index + 1]>>

\* The zero value of PuzzleView, held by App before the first session.
ZeroPuzzle == [ID |-> "", Track |-> 0, Level |-> 0, Par |-> 0, Before |-> <<>>, After |-> <<>>]

ZeroPuzzleView == [NewPuzzleView(ZeroPuzzle, FALSE) EXCEPT !.mode = ""]

\* ------------------------------------------------------------ App.Update
\* messages in flight in the application
MaxInFlight == 2
\* key events of one attempt in the application
MaxSessionKeys == 1

RECURSIVE SumOver(_, _)
SumOver(f, S) ==
    IF S = {} THEN 0
    ELSE LET x == CHOOSE y \in S : TRUE IN f[x] + SumOver(f, S \ {x})

\* messages in flight
InFlight ==
    syncs + stale + inits + SumOver(exits, DOMAIN exits) + SumOver(selected, DOMAIN selected)

\* the bound of the application's state space: a step leaves no more than
\* MaxInFlight messages in flight
Bounded == InFlight' <= MaxInFlight

PuzzleIndex(p) == CHOOSE i \in 1..Len(Puzzles) : Puzzles[i].ID = p.ID

\* keys typed on the puzzle screen and on the selection screen
AppKeyMsgs ==
    {RuneMsg(c) : c \in {"w", "i", "d"}}
        \cup {SpecialMsg(t) : t \in {"KeyEnter", "KeyCtrlQ", "KeyCtrlR"}}

TrackKeyMsgs ==
    {RuneMsg(c) : c \in {"y"}}
        \cup {SpecialMsg(t) : t \in {"KeyEnter", "KeyCtrlR"}}

\* the editor's answers in the application: its reads succeed
AppReads == {rd \in SyncReads : rd.modeOK /\ rd.mode \in {<<"n">>, <<"i">>}}

AppRestartReads(v, msg) == IF Restarts(v, msg) THEN AppReads ELSE {NoRead}

AppTextAnswers(v) == IF v.state = statePlaying THEN Texts ELSE {ReadFailed}

\* the history variables after a step that is no Update of the puzzle view
NoViewStep ==
    /\ input' = NoInput
    /\ exit' = <<>>
    /\ key' = NoKeys
    /\ read' = NoRead
    /\ validated' = FALSE
    /\ inputErr' = FALSE
    /\ UNCHANGED submitted

\* the session ends: the ticks it scheduled stay in flight
EndSession == stale' = stale + syncs /\ syncs' = 0

\* NewPuzzleView(p, a.nvim, ...) and the Init command of the new view
NewSession(p) ==
    /\ pv' = NewPuzzleView(p, TRUE)
    /\ inits' = inits + 1
    /\ keyEvents' = 0
    /\ EndSession

\* App.Update, selectedPuzzle: updateTrack on the selection screen, the
\* default branch of PuzzleView.Update on the puzzle screen. newOK is whether
\* nvimclient.New succeeds.
SelectedPuzzle(i, newOK) ==
    /\ selected[i] > 0
    /\ selected' = [selected EXCEPT ![i] = @ - 1]
    /\ NoViewStep
    /\ IF screen = screenTrack /\ newOK
       THEN /\ nvim' = TRUE
            /\ engines' = engines + 1
            /\ screen' = screenPuzzle
            /\ NewSession(Puzzles[i])
            /\ UNCHANGED <<results, trackView, exits>>
       ELSE UNCHANGED <<pv, results, syncs, inits, keyEvents, screen, nvim, engines,
                        trackView, exits, stale>>

\* PuzzleExit that returns to the selection screen without Client.Close
PuzzleExitKeepsEngine(next) ==
    /\ exits[next] > 0
    /\ exits' = [exits EXCEPT ![next] = @ - 1]
    /\ NoViewStep
    /\ IF screen = screenTrack
       THEN UNCHANGED <<pv, results, syncs, inits, keyEvents, screen, nvim, engines,
                        trackView, selected, stale>>
       ELSE LET nx == nextPuzzleInLevel(Puzzles, pv.puzzle) IN
            IF next /\ nx # <<>> /\ nvim
            THEN /\ NewSession(nx[1])
                 /\ UNCHANGED <<results, screen, nvim, engines, trackView, selected>>
            ELSE /\ screen' = screenTrack
                 /\ trackView' = trackViewForLevel(pv.puzzle)
                 /\ nvim' = FALSE
                 /\ engines' = engines
                 /\ EndSession
                 /\ UNCHANGED <<pv, results, inits, keyEvents, selected>>

\* App.Update, puzzleExitMsg: updatePuzzle on the puzzle screen, ignored by
\* TrackView.Update on the selection screen.
PuzzleExit(next) ==
    /\ exits[next] > 0
    /\ exits' = [exits EXCEPT ![next] = @ - 1]
    /\ NoViewStep
    /\ IF screen = screenTrack
       THEN UNCHANGED <<pv, results, syncs, inits, keyEvents, screen, nvim, engines,
                        trackView, selected, stale>>
       ELSE LET nx == nextPuzzleInLevel(Puzzles, pv.puzzle) IN
            IF next /\ nx # <<>> /\ nvim
            THEN /\ NewSession(nx[1])
                 /\ UNCHANGED <<results, screen, nvim, engines, trackView, selected>>
            ELSE /\ screen' = screenTrack
                 /\ trackView' = trackViewForLevel(pv.puzzle)
                 /\ nvim' = FALSE
                 /\ engines' = IF nvim THEN engines - 1 ELSE engines
                 /\ EndSession
                 /\ UNCHANGED <<pv, results, inits, keyEvents, selected>>

\* App.updateTrack, tea.KeyMsg
TrackKey(msg) ==
    /\ screen = screenTrack
    /\ LET r == TrackViewUpdate(trackView, msg, results) IN
         /\ ~r.quit
         /\ trackView' = r.v
         /\ results' = IF r.reset THEN NoResults ELSE results
         /\ selected' = IF r.selected = <<>> THEN selected
                        ELSE [selected EXCEPT ![PuzzleIndex(r.selected[1])] = @ + 1]
    /\ NoViewStep
    /\ UNCHANGED <<pv, syncs, inits, keyEvents, screen, nvim, engines, exits, stale>>

\* App.updateTrack, initPuzzleMsg: no case of TrackView.Update
TrackInit ==
    /\ screen = screenTrack
    /\ inits > 0
    /\ inits' = inits - 1
    /\ NoViewStep
    /\ UNCHANGED <<pv, results, syncs, keyEvents, screen, nvim, engines, trackView,
                   exits, selected, stale>>

\* App.updateTrack, nvimSyncMsg: no case of TrackView.Update
TrackSync ==
    /\ screen = screenTrack
    /\ stale > 0
    /\ stale' = stale - 1
    /\ NoViewStep
    /\ UNCHANGED <<pv, results, syncs, inits, keyEvents, screen, nvim, engines, trackView,
                   exits, selected>>

\* PuzzleView.Update, an nvimSyncMsg that a session scheduled before it ended
StaleSync(rd, text) ==
    /\ stale > 0
    /\ stale' = stale - 1
    /\ Synchronize(rd, text)
    /\ UNCHANGED syncs

\* App.updatePuzzle, default branch: the puzzle view's command is returned, a
\* puzzleExitMsg it emits is in flight
ViewStep ==
    /\ screen = screenPuzzle
    /\ exits' = IF exit' = <<>> THEN exits ELSE [exits EXCEPT ![exit'[1]] = @ + 1]
    /\ UNCHANGED <<screen, nvim, engines, trackView, selected, submitted>>

\* NewApp: the selection screen, no editor
InitApp ==
    /\ pv = ZeroPuzzleView
    /\ results = NoResults
    /\ syncs = 0
    /\ inits = 0
    /\ input = NoInput
    /\ exit = <<>>
    /\ key = NoKeys
    /\ read = NoRead
    /\ validated = FALSE
    /\ keyEvents = 0
    /\ screen = screenTrack
    /\ nvim = FALSE
    /\ engines = 0
    /\ trackView = NewTrackView
    /\ exits = NoExits
    /\ selected = NoSelected
    /\ stale = 0
    /\ inputErr = FALSE
    /\ submitted = {}

\* The application: the messages App.Update handles.
NextApp ==
    \/ \E msg \in TrackKeyMsgs : TrackKey(msg) /\ Bounded
    \/ \E i \in 1..Len(Puzzles), newOK \in BOOLEAN : SelectedPuzzle(i, newOK) /\ Bounded
    \/ \E next \in BOOLEAN : PuzzleExit(next) /\ Bounded
    \/ TrackInit
    \/ TrackSync
    \/ \E rd \in AppReads :
         InitPuzzle(TRUE, rd) /\ ViewStep /\ inputErr' = FALSE /\ UNCHANGED stale
    \/ \E rd \in AppReads, text \in AppTextAnswers(pv) :
         Sync(rd, text) /\ ViewStep /\ inputErr' = FALSE /\ UNCHANGED stale
    \/ \E rd \in AppReads, text \in AppTextAnswers(pv) :
         StaleSync(rd, text) /\ ViewStep /\ inputErr' = FALSE
    \/ \E msg \in AppKeyMsgs :
         \E rd \in AppRestartReads(pv, msg), err \in BOOLEAN :
            /\ KeyMsg(msg, TRUE, rd)
            /\ pv'.keystrokes <= MaxSessionKeys
            /\ ViewStep
            /\ inputErr' = (err /\ input' # NoInput)
            /\ UNCHANGED stale
            /\ Bounded

SpecApp == InitApp /\ [][NextApp]_vars



\* ===================================================================
\* Properties
\* ===================================================================
PendingEmpty(v) ==
    /\ v.pendingKeys = <<>>
    /\ v.pendingCount = <<>>
    /\ ~v.pendingOperator
    /\ ~v.pendingNeedsChar
    /\ ~v.pendingTextObject
    /\ ~v.pendingHasCount

\* The step is the handling of a key event whose translation k is not empty
\* and reaches handleNvimInput.
KeyEvent(k) == k # NoKeys /\ key' = k

\* The step dispatches exactly the command cmd: it is handed to the editor,
\* one synchronization is scheduled and nothing stays pending.
Dispatches(cmd) ==
    /\ input' = cmd
    /\ syncs' = syncs + 1
    /\ PendingEmpty(pv')

\* The step only buffers: nothing is handed to the editor, nothing scheduled.
Buffers ==
    /\ input' = NoInput
    /\ syncs' = syncs

NormalIdle(v) == v.mode = "NORMAL" /\ v.pendingKeys = <<>> /\ v.pendingCount = <<>>

OperatorKeys == {<<"d">>, <<"c">>, <<"y">>}
PrefixKeys ==
    {<<c>> : c \in {"r", "f", "t", "F", "T", "m", "'", Backquote, "g", "z", "@", "q", "[", "]"}}
DigitKeys == {<<c>> : c \in Digits}

\* C1: the keystroke counter equals the number of key events with a non-empty
\* translation handled since the last start, retry or reset, buffered or
\* dispatched alike.
C1_KeystrokesCountKeyEvents == pv.keystrokes = keyEvents

\* C1 witness: two keys were handled and both are still buffered.
C1_Witness ==
    pv.pendingKeys = <<"d", "2">> /\ input = NoInput /\ pv.keystrokes = 2 /\ keyEvents = 2

\* C2: in a playing session, whatever the mode estimate and whatever is
\* pending, an escape key empties the pending state, sends exactly "<Esc>" and
\* sets the mode estimate to NORMAL.
C2_EscapeCancelsPending ==
    [][(pv.state = statePlaying /\ KeyEvent(Esc))
         => (PendingEmpty(pv') /\ input' = Esc /\ syncs' = syncs + 1 /\ pv'.mode = "NORMAL")]_vars

\* C2 witness: escape was the third key of an attempt and was sent alone.
C2_Witness ==
    /\ input = Esc /\ pv.keystrokes = 3 /\ PendingEmpty(pv) /\ pv.mode = "NORMAL"
    /\ syncs = 1 /\ inits = 1

\* C3: while the mode estimate is not NORMAL every key event is dispatched at
\* once as exactly that key, nothing stays buffered, and the estimate changes
\* only for escape, which makes it NORMAL.
C3_OtherModesForwardKeys ==
    [][LET k == key' IN
          (pv.mode # "NORMAL" /\ KeyEvent(k))
            => /\ Dispatches(k)
               /\ pv'.mode = IF k = Esc THEN "NORMAL" ELSE pv.mode]_vars

\* C3 witness: an operator key was sent alone, which happens only outside
\* NORMAL, and the estimate is still INSERT.
C3_Witness == input = <<"d">> /\ pv.mode = "INSERT" /\ PendingEmpty(pv)

\* C4: in NORMAL with nothing pending a digit 1-9 starts a count without a
\* dispatch, further digits extend it without a dispatch, and a key that is
\* not escape, a digit, an operator or a prefix key then dispatches the count
\* followed by the key as one command; every key event counts one keystroke.
C4_CountThenKey ==
    [][LET k == key' IN
          KeyEvent(k) =>
            /\ (NormalIdle(pv) /\ k \in DigitKeys \ {<<"0">>})
                  => (Buffers /\ pv'.pendingCount = k /\ pv'.pendingKeys = <<>>
                        /\ pv'.keystrokes = pv.keystrokes + 1)
            /\ (pv.mode = "NORMAL" /\ pv.pendingKeys = <<>> /\ pv.pendingCount # <<>>
                  /\ k \in DigitKeys)
                  => (Buffers /\ pv'.pendingCount = pv.pendingCount \o k
                        /\ pv'.pendingKeys = <<>>
                        /\ pv'.keystrokes = pv.keystrokes + 1)
            /\ (pv.mode = "NORMAL" /\ pv.pendingKeys = <<>> /\ pv.pendingCount # <<>>
                  /\ k \notin DigitKeys \cup OperatorKeys \cup PrefixKeys \cup {Esc})
                  => (Dispatches(pv.pendingCount \o k)
                        /\ pv'.keystrokes = pv.keystrokes + 1)]_vars

\* C4 witness: "2", "0", "w" were three key events and one command "20w".
C4_Witness == input = <<"2", "0", "w">> /\ pv.keystrokes = 3 /\ PendingEmpty(pv)

\* C5: in NORMAL with nothing pending an operator key is buffered, a
\* text-object prefix after it is buffered too, and the next key that is not
\* escape dispatches the three keys as one command; three keystrokes count.
C5_OperatorTextObject ==
    [][LET k == key' IN
          KeyEvent(k) =>
            /\ (NormalIdle(pv) /\ k \in OperatorKeys)
                  => (Buffers /\ pv'.pendingKeys = k /\ pv'.keystrokes = pv.keystrokes + 1)
            /\ (pv.mode = "NORMAL" /\ pv.pendingKeys \in OperatorKeys
                  /\ k \in {<<"i">>, <<"a">>})
                  => (Buffers /\ pv'.pendingKeys = pv.pendingKeys \o k
                        /\ pv'.keystrokes = pv.keystrokes + 1)
            /\ (pv.mode = "NORMAL" /\ k # Esc
                  /\ \E o \in OperatorKeys, p \in {<<"i">>, <<"a">>} : pv.pendingKeys = o \o p)
                  => (Dispatches(pv.pendingKeys \o k)
                        /\ pv'.keystrokes = pv.keystrokes + 1)]_vars

\* C5 witness: "d", "i", "w" were three key events and one command "diw".
C5_Witness == input = <<"d", "i", "w">> /\ pv.keystrokes = 3 /\ keyEvents = 3

\* C6: in NORMAL, an operator key right after the same operator key
\* dispatches the doubled operator on that second key event and leaves
\* nothing pending.
C6_DoubleOperator ==
    [][\A k \in OperatorKeys :
          (pv.mode = "NORMAL" /\ pv.pendingKeys = k /\ KeyEvent(k))
            => Dispatches(k \o k)]_vars

\* C6 witness: "dd" was dispatched on the second key event of the attempt.
C6_Witness == input = <<"d", "d">> /\ pv.keystrokes = 2 /\ PendingEmpty(pv)

\* C7: a leading count and a buffered command are never both pending, and
\* right after a key event that dispatched a command nothing is pending.
C7_OnePendingCommand ==
    /\ ~(pv.pendingCount # <<>> /\ pv.pendingKeys # <<>>)
    /\ (input # NoInput /\ input # <<EscByte>>) => PendingEmpty(pv)

\* C7 witness: a count moved into a buffered operator command.
C7_Witness ==
    pv.pendingKeys = <<"2", "d">> /\ pv.pendingCount = <<>> /\ pv.pendingOperator


\* the key table: the mode each mode-changing key enters
C8_KeyTable ==
    [k \in {<<c>> : c \in {"i", "I", "a", "A", "o", "O", "s", "S", "C", "R", "v", "V",
                           ":", "/", "?"}} \cup {<<"<", "C", "-", "v", ">">>} |->
        IF k = <<"R">> THEN "REPLACE"
        ELSE IF k = <<"v">> THEN "VISUAL"
        ELSE IF k = <<"V">> THEN "V-LINE"
        ELSE IF k = <<"<", "C", "-", "v", ">">> THEN "V-BLOCK"
        ELSE IF k \in {<<":">>, <<"/">>, <<"?">>} THEN "COMMAND"
        ELSE "INSERT"]

\* cmd is optional count digits, then the operator letter op, then at least
\* one more character
OperatorCommand(cmd, op) ==
    \E i \in 1..Len(cmd) :
        /\ cmd[i] = op
        /\ i < Len(cmd)
        /\ \A j \in 1..(i - 1) : cmd[j] \in Digits

\* C8: after a dispatch made while the estimate is NORMAL, the estimate is the
\* table's mode when the command is exactly one mode-changing key; a command
\* that is not such a key, even when it contains or ends with one, leaves the
\* estimate NORMAL unless it is a change-operator command.
C8_ExactModeKeyOnly ==
    [][(KeyEvent(key') /\ pv.mode = "NORMAL" /\ input' # NoInput) =>
          /\ input' \in DOMAIN C8_KeyTable => pv'.mode = C8_KeyTable[input']
          /\ (input' \notin DOMAIN C8_KeyTable /\ ~OperatorCommand(input', "c"))
                => pv'.mode = "NORMAL"]_vars

\* C8 witness: the compound "2i", which ends with a mode-changing key, was
\* dispatched and the estimate is NORMAL.
C8_Witness ==
    input = <<"2", "i">> /\ pv.mode = "NORMAL" /\ pv.keystrokes = 2 /\ syncs = 1 /\ inits = 1

\* C9: a change-operator command dispatched from NORMAL makes the estimate
\* INSERT; a key that is only buffered (such as "c" or count and "c") leaves
\* it NORMAL; delete and yank operator commands leave it NORMAL.
C9_ChangeEntersInsert ==
    [][(KeyEvent(key') /\ pv.mode = "NORMAL") =>
          /\ OperatorCommand(input', "c") => pv'.mode = "INSERT"
          /\ input' = NoInput => pv'.mode = "NORMAL"
          /\ (OperatorCommand(input', "d") \/ OperatorCommand(input', "y"))
                => pv'.mode = "NORMAL"]_vars

\* C9 witness: "2cw" was dispatched and the estimate is INSERT.
C9_Witness == input = <<"2", "c", "w">> /\ pv.mode = "INSERT" /\ pv.keystrokes = 3

\* the display name of the mode tokens the editor answers
C10_Reported(m) ==
    CASE m = <<"n">> -> "NORMAL"
      [] m = <<"i">> -> "INSERT"
      [] m = <<"r">> -> "R"
      [] OTHER -> "none"

\* The step is a synchronization: only the delivery of an nvimSyncMsg takes a
\* scheduled tick away.
C10_Synchronizes == syncs' = syncs - 1

\* C10 as stated: every synchronization overwrites the estimate with the
\* mode the editor is in at that read, so after it the estimate is one of
\* the editor's modes and a speculative estimate has not survived.
C10_EverySyncOverwrites ==
    [][C10_Synchronizes =>
          /\ read'.modeOK
          /\ pv'.mode = C10_Reported(read'.mode)]_vars

\* C10 amended: every synchronization whose reads of the buffer lines and of
\* the mode both succeed overwrites the estimate with the mode the editor
\* reports, whatever the estimate was; a synchronization with a failed read
\* leaves the estimate as it was.
C10_SuccessfulSyncOverwrites ==
    [][C10_Synchronizes =>
          pv'.mode = IF read'.linesOK /\ read'.modeOK
                     THEN C10_Reported(read'.mode)
                     ELSE pv.mode]_vars

\* C10 witness: the only key event of the attempt was dispatched and its
\* synchronization, the only step that read the editor, left the mode that
\* only the editor reports.
C10_Witness ==
    /\ pv.mode = "R" /\ read.modeOK /\ read.mode = <<"r">>
    /\ keyEvents = 1 /\ syncs = 0 /\ inits = 1 /\ key = NoKeys

\* -------------------------------------------------------------------
\* C11: the handling of one key event hands at most one command string to
\* the editor (input holds the one string of the step), and it schedules a
\* synchronization if and only if it sent a command: a dispatch schedules
\* exactly one synchronization, a key that is only buffered sends nothing
\* and schedules nothing.
C11_SyncIffCommandSent ==
    [][key' # NoKeys =>
          \/ input' # NoInput /\ syncs' = syncs + 1
          \/ input' = NoInput /\ syncs' = syncs]_vars

\* the operator d was buffered, then w dispatched "dw" with one
\* synchronization scheduled
C11_Witness ==
    /\ key = <<"w">> /\ input = <<"d", "w">>
    /\ keyEvents = 2 /\ syncs = 1 /\ inits = 0

\* -------------------------------------------------------------------
\* C12: a session moves from playing to cleared only in the processing of a
\* synchronization whose buffer text passes the completion check against the
\* goal of the current puzzle; in that step the rating becomes
\* Score(keystrokes, par) and exactly that rating and keystroke count are
\* merged by SetBest into the stored result of the current puzzle (the store
\* that Save then writes).
C12_ClearedOnlyByValidSync ==
    [][(pv.state = statePlaying /\ pv'.state = stateCleared) =>
          /\ syncs' = syncs - 1 \/ stale' = stale - 1
          /\ validated'
          /\ pv'.puzzle = pv.puzzle
          /\ pv'.keystrokes = pv.keystrokes
          /\ pv'.stars = Score(pv.keystrokes, pv.puzzle.Par)
          /\ results' = SetBest(results, pv.puzzle.ID, pv'.stars, pv.keystrokes)]_vars

\* a session cleared with three key events against a par of two: two stars,
\* stored as the best result of the puzzle
C12_Witness ==
    /\ pv.state = stateCleared /\ validated
    /\ pv.keystrokes = 3 /\ pv.stars = TwoStar
    /\ results = SetBest(NoResults, pv.puzzle.ID, TwoStar, 3)

\* -------------------------------------------------------------------
\* The step creates the view of a new session (NewPuzzleView, with its Init
\* command in flight).
C13_Starts == inits' = inits + 1

\* The step is a retry from the cleared state or a reset from the playing
\* state: the only step that reads the editor and consumes no message that
\* was in flight.
C13_Restarts ==
    /\ read' # NoRead
    /\ syncs' = syncs /\ inits' = inits /\ stale' = stale

\* C13: after the start of a puzzle (the creation of its view), a retry from
\* the cleared state or a reset from the playing state, the keystroke
\* counter is zero, nothing is pending and the session is playing, whatever
\* they were before.
C13_FreshAfterStartRetryReset ==
    [][(C13_Starts \/ C13_Restarts) =>
          /\ pv'.keystrokes = 0
          /\ PendingEmpty(pv')
          /\ pv'.state = statePlaying]_vars

\* a reset processed after a key event of the session was counted and
\* dispatched (its synchronization is still in flight)
C13_Witness ==
    /\ read # NoRead /\ input = <<EscByte>> /\ key = NoKeys
    /\ syncs = 1 /\ inits = 0 /\ keyEvents = 0
    /\ pv.keystrokes = 0 /\ pv.state = statePlaying
    /\ screen = screenPuzzle

\* -------------------------------------------------------------------
\* The stored result of the puzzle differs after the step.
C14_ResultChanges(id) ==
    \/ (id \in DOMAIN results') # (id \in DOMAIN results)
    \/ GetBest(results', id) # GetBest(results, id)

\* The step clears a session of the puzzle.
C14_Clears(id) ==
    /\ pv.puzzle.ID = id
    /\ pv.state = statePlaying /\ pv'.state = stateCleared
    /\ validated'

\* The step is the confirmed reset of the whole progress on the selection
\* screen.
C14_ResetsProgress ==
    /\ screen = screenTrack /\ trackView.confirmReset
    /\ key' = NoKeys /\ results' = NoResults

\* C14: a retry or a reset of the attempt leaves the stored results of every
\* puzzle unchanged; the stored result of a puzzle changes only in a step
\* that clears a session of that puzzle or that resets the whole progress.
C14_ResultsChangeOnlyOnClearOrReset ==
    [][/\ C13_Restarts => results' = results
       /\ \A i \in 1..Len(Puzzles) :
            C14_ResultChanges(Puzzles[i].ID) =>
                C14_Clears(Puzzles[i].ID) \/ C14_ResetsProgress]_vars

\* an attempt at a puzzle that has a stored result was reset after a key
\* event of it was dispatched: the result is still stored
C14_Witness ==
    /\ read # NoRead /\ input = <<EscByte>> /\ key = NoKeys
    /\ syncs = 1 /\ pv.keystrokes = 0 /\ pv.state = statePlaying
    /\ pv.puzzle.ID \in DOMAIN results
    /\ results[pv.puzzle.ID].Stars = ThreeStar

\* -------------------------------------------------------------------
\* The step processes an nvimSyncMsg whose session has ended.
C15_StaleArrives == stale' = stale - 1

\* C15: a synchronization scheduled by a dispatch of one session that arrives
\* after that session was abandoned is discarded: it updates neither the
\* mode, the playing/cleared state or the rating of any session nor any
\* stored result.
C15_StaleSyncDiscarded ==
    [][C15_StaleArrives => pv' = pv /\ results' = results]_vars

\* -------------------------------------------------------------------
\* C16: when the Client.Input call that forwards a command fails, the key is
\* an inert no-op: the keystroke counter, the pending state, the mode
\* estimate and the playing/cleared state are what they were before the key.
C16_FailedForwardIsInert ==
    [][(key' # NoKeys /\ inputErr') =>
          /\ pv'.keystrokes = pv.keystrokes
          /\ PendingEmpty(pv') = PendingEmpty(pv)
          /\ pv'.pendingKeys = pv.pendingKeys
          /\ pv'.mode = pv.mode
          /\ pv'.state = pv.state]_vars

\* -------------------------------------------------------------------
\* At most one editor process is live, App.nvim refers to it, and it is live
\* exactly while the application is on the puzzle screen.
C17_OneEngineOnPuzzleScreen ==
    /\ engines <= 1
    /\ nvim <=> engines = 1
    /\ engines = 1 <=> screen = screenPuzzle

\* An editor process is started only when none is live, a step that stays
\* on the puzzle screen (the start of the next puzzle included) keeps the
\* process, and the return to the selection screen closes it.
C17_EngineSteps ==
    /\ engines' > engines => engines = 0
    /\ (screen = screenPuzzle /\ screen' = screenPuzzle) =>
           engines' = engines /\ nvim' = nvim
    /\ (screen = screenPuzzle /\ screen' = screenTrack) =>
           engines' = 0 /\ ~nvim'

\* C17: at most one engine instance is live at any time and it serves one
\* puzzle session: an engine exists if and only if the application is on
\* the puzzle screen, a new engine is created only when none is live,
\* advancing to the next puzzle reuses the instance, and returning to the
\* level selection closes it.
C17_SingleEngine == []C17_OneEngineOnPuzzleScreen /\ [][C17_EngineSteps]_vars

\* the session of the second puzzle, started by advancing from the first,
\* runs on the one engine
C17_Witness ==
    /\ screen = screenPuzzle /\ engines = 1 /\ nvim
    /\ pv.puzzle.ID = "p2" /\ inits = 1
    /\ "p1" \in DOMAIN results
    /\ trackView.puzzleList # <<>> /\ trackView.cursor = 0

\* ===================================================================
\* puzzle.Score on bounded inputs
\* ===================================================================
\* A session with any keystroke count on a puzzle of any par above zero, one
\* synchronization in flight.
InitScore ==
    /\ \E k \in 0..MaxInt, par \in 1..MaxInt :
         pv = [NewPuzzleView([ThePuzzle EXCEPT !.Par = par], TRUE) EXCEPT !.keystrokes = k]
    /\ results = NoResults
    /\ syncs = 1
    /\ inits = 0
    /\ input = NoInput
    /\ exit = <<>>
    /\ key = NoKeys
    /\ read = NoRead
    /\ validated = FALSE
    /\ keyEvents = 0
    /\ screen = screenPuzzle
    /\ nvim = TRUE
    /\ engines = 1
    /\ trackView = NewTrackView
    /\ exits = NoExits
    /\ selected = NoSelected
    /\ stale = 0
    /\ inputErr = FALSE
    /\ submitted = {}

\* The synchronization reads the goal text: syncCheckClear applies Score to
\* the keystroke count and the par.
NextScore ==
    \E rd \in SyncReads : Sync(rd, pv.puzzle.After) /\ UNCHANGED appVars

SpecScore == InitScore /\ [][NextScore]_vars

\* floor(par * 1.5)
C18_Floor15(par) == (par * 3) \div 2

\* C18: for all keystrokes and all par > 0, Score(keystrokes, par) is three
\* stars if keystrokes <= par, two stars if par < keystrokes <=
\* floor(par * 1.5) and one star otherwise; it is never the no-star rating.
C18_ScoreBands ==
    pv.state = stateCleared =>
        /\ pv.stars # NoStar
        /\ pv.stars = IF pv.keystrokes <= pv.puzzle.Par THEN ThreeStar
                      ELSE IF pv.keystrokes <= C18_Floor15(pv.puzzle.Par) THEN TwoStar
                      ELSE OneStar

\* The bands of C18 for the pars whose triple an int holds.
C18_ScoreBandsInRange ==
    (pv.state = stateCleared /\ pv.puzzle.Par * 3 <= MaxInt) =>
        /\ pv.stars # NoStar
        /\ pv.stars = IF pv.keystrokes <= pv.puzzle.Par THEN ThreeStar
                      ELSE IF pv.keystrokes <= C18_Floor15(pv.puzzle.Par) THEN TwoStar
                      ELSE OneStar

\* -------------------------------------------------------------------
\* C19: for every fixed par > 0, Score is monotonically non-increasing in
\* the keystrokes: k1 <= k2 implies Score(k1, par) >= Score(k2, par).
C19_ScoreMonotone ==
    pv.state = stateCleared =>
        \A k \in 0..MaxInt :
            /\ pv.keystrokes <= k => pv.stars >= Score(k, pv.puzzle.Par)
            /\ k <= pv.keystrokes => Score(k, pv.puzzle.Par) >= pv.stars

\* a session rated two stars: fewer keystrokes rate higher, more rate lower
C19_Witness ==
    /\ pv.state = stateCleared /\ pv.stars = TwoStar
    /\ pv.keystrokes = 6 /\ pv.puzzle.Par = 4
    /\ Score(4, 4) = ThreeStar /\ Score(7, 4) = OneStar

\* ===================================================================
\* puzzle.Validate on bounded inputs
\* ===================================================================
\* length of the texts compared
MaxLen == 3

ValidateChars == {"a", "b", "\n"}

\* the texts of at most MaxLen characters
ValidateTexts ==
    UNION {[1..n -> ValidateChars] : n \in 0..MaxLen}

\* A session on a puzzle with any initial text and any goal text, the
\* initial text loaded and one synchronization in flight.
InitValidate ==
    /\ \E before \in ValidateTexts, after \in ValidateTexts :
         pv = NewPuzzleView([ThePuzzle EXCEPT !.Before = before, !.After = after], TRUE)
    /\ results = NoResults
    /\ syncs = 1
    /\ inits = 0
    /\ input = NoInput
    /\ exit = <<>>
    /\ key = NoKeys
    /\ read = NoRead
    /\ validated = FALSE
    /\ keyEvents = 0
    /\ screen = screenPuzzle
    /\ nvim = TRUE
    /\ engines = 1
    /\ trackView = NewTrackView
    /\ exits = NoExits
    /\ selected = NoSelected
    /\ stale = 0
    /\ inputErr = FALSE
    /\ submitted = {}

\* The synchronization reads the buffer as it was loaded: syncCheckClear
\* applies Validate to the initial text and the goal text.
NextValidate ==
    \E rd \in SyncReads : Sync(rd, pv.puzzle.Before) /\ UNCHANGED appVars

SpecValidate == InitValidate /\ [][NextValidate]_vars

\* The synchronization of the session has been processed: validated holds
\* Validate(Before, After).
C20_Compared == syncs = 0

\* One text is the other followed by one newline.
C20_TrailingNewlineVariant(t, u) == t = u \o <<"\n">> \/ u = t \o <<"\n">>

\* The texts differ at a position both have (a different character, or a
\* newline inside or at the head of one that the other has not), or the
\* longer one goes on with a character that is no newline.
C20_DifferOtherwise(t, u) ==
    \/ \E i \in 1..min(Len(t), Len(u)) : t[i] # u[i]
    \/ \E i \in (min(Len(t), Len(u)) + 1)..max(Len(t), Len(u)) :
         (IF i <= Len(t) THEN t[i] ELSE u[i]) # "\n"

C21_TrimOne(s) ==
    IF s # <<>> /\ s[Len(s)] = "\n" THEN SubSeq(s, 1, Len(s) - 1) ELSE s

\* n newlines
C21_Newlines(n) == [i \in 1..n |-> "\n"]

\* C21: Validate trims a single trailing line terminator from each argument
\* before comparing: at most one trailing newline per side is ignored, so a
\* text followed by two or more newlines is not reported complete against
\* the text itself.
C21_SingleNewlineTrimmed ==
    C20_Compared =>
        LET t == pv.puzzle.Before
            u == pv.puzzle.After
        IN  /\ validated <=> C21_TrimOne(t) = C21_TrimOne(u)
            /\ (\E n \in 2..MaxLen : t = u \o C21_Newlines(n)) => ~validated

\* ===================================================================
\* Store.SetBest on bounded inputs
\* ===================================================================
BestKeystrokes == {7, 10, 12}

BestPars == {4, 5, 7, 8, 12}

\* the stores SetBest is applied to: a result of the puzzle or none, a
\* result of another puzzle or none
BestStores ==
    LET Stored == [Stars : {OneStar, TwoStar, ThreeStar}, Keystrokes : BestKeystrokes]
        Of(id, S) == {[i \in {id} |-> r] : r \in S}
        Mine == {NoResults} \cup Of(ThePuzzle.ID, Stored)
        Other == {NoResults} \cup Of(Puzzles[2].ID, {[Stars |-> OneStar, Keystrokes |-> 12]})
    IN  {[id \in DOMAIN a \cup DOMAIN b |-> IF id \in DOMAIN a THEN a[id] ELSE b[id]] :
            a \in Mine, b \in Other}

\* A session with a keystroke count on a puzzle with a par, a store and one
\* synchronization in flight.
InitSetBest ==
    /\ \E k \in BestKeystrokes, par \in BestPars :
         pv = [NewPuzzleView([ThePuzzle EXCEPT !.Par = par], TRUE) EXCEPT !.keystrokes = k]
    /\ results \in BestStores
    /\ syncs = 1
    /\ inits = 0
    /\ input = NoInput
    /\ exit = <<>>
    /\ key = NoKeys
    /\ read = NoRead
    /\ validated = FALSE
    /\ keyEvents = 0
    /\ screen = screenPuzzle
    /\ nvim = TRUE
    /\ engines = 1
    /\ trackView = NewTrackView
    /\ exits = NoExits
    /\ selected = NoSelected
    /\ stale = 0
    /\ inputErr = FALSE
    /\ submitted = {}

\* The synchronization reads the goal text: syncCheckClear merges the
\* rating and the keystroke count into the store with SetBest.
NextSetBest ==
    \E rd \in SyncReads : Sync(rd, pv.puzzle.After) /\ UNCHANGED appVars

SpecSetBest == InitSetBest /\ [][NextSetBest]_vars

\* The step merges the result of the session into the store.
C22_Merges == pv.state = statePlaying /\ pv'.state = stateCleared

\* C22: SetBest(id, stars, keystrokes) replaces the stored result of the
\* puzzle if and only if none is stored, or stars is strictly higher than
\* the stored rating (whatever the keystrokes), or stars equals the stored
\* rating and keystrokes is strictly fewer; otherwise the stored result is
\* unchanged; the results of other puzzles are never touched.
C22_SetBestReplaces ==
    [][C22_Merges =>
          LET id == pv.puzzle.ID
              new == [Stars |-> pv'.stars, Keystrokes |-> pv.keystrokes]
              replaces ==
                  \/ id \notin DOMAIN results
                  \/ new.Stars > results[id].Stars
                  \/ new.Stars = results[id].Stars /\ new.Keystrokes < results[id].Keystrokes
          IN  /\ DOMAIN results' = DOMAIN results \cup {id}
              /\ results'[id] = IF replaces THEN new ELSE results[id]
              /\ \A other \in DOMAIN results \ {id} : results'[other] = results[other]]_vars

\* three stars with 12 keystrokes were merged and are stored, the result of
\* the other puzzle beside them
C22_Witness ==
    /\ pv.state = stateCleared /\ validated
    /\ pv.keystrokes = 12 /\ pv.stars = ThreeStar
    /\ results[pv.puzzle.ID] = [Stars |-> ThreeStar, Keystrokes |-> 12]
    /\ Puzzles[2].ID \in DOMAIN results

\* -------------------------------------------------------------------
\* C23 as the specification states it: merging a result whose rating is not
\* strictly higher than the stored rating leaves the stored result
\* unchanged, even when the new result has fewer keystrokes.
C23_NotHigherRatingUnchanged ==
    [][(C22_Merges /\ pv.puzzle.ID \in DOMAIN results
           /\ pv'.stars <= results[pv.puzzle.ID].Stars) =>
          results'[pv.puzzle.ID] = results[pv.puzzle.ID]]_vars

\* C23 as the code has it: merging a result whose rating is not strictly
\* higher than the stored rating replaces the stored result exactly when the
\* rating is equal and the keystrokes are strictly fewer (two stars with 7
\* keystrokes replace two stars with 10), and leaves it unchanged otherwise.
C23_EqualRatingFewerKeystrokesReplaces ==
    [][(C22_Merges /\ pv.puzzle.ID \in DOMAIN results
           /\ pv'.stars <= results[pv.puzzle.ID].Stars) =>
          LET stored == results[pv.puzzle.ID] IN
          IF pv'.stars = stored.Stars /\ pv.keystrokes < stored.Keystrokes
          THEN results'[pv.puzzle.ID] = [Stars |-> stored.Stars, Keystrokes |-> pv.keystrokes]
          ELSE results'[pv.puzzle.ID] = stored]_vars

\* two stars with 7 keystrokes were merged and are stored
C23_Witness ==
    /\ pv.state = stateCleared /\ validated
    /\ pv.keystrokes = 7 /\ pv.stars = TwoStar
    /\ results[pv.puzzle.ID] = [Stars |-> TwoStar, Keystrokes |-> 7]

\* ===================================================================
\* Store.IsLevelUnlocked on bounded inputs
\* ===================================================================
\* the stores the levels are asked of: of each puzzle no result, one star or
\* three stars
UnlockStores ==
    LET ids == {Puzzles[i].ID : i \in 1..Len(Puzzles)}
        Rated == [Stars : {OneStar, ThreeStar}, Keystrokes : {1}]
    IN  UNION {[S -> Rated] : S \in SUBSET ids}

\* levels asked about: those of the puzzles and the one after the last
MaxLevel == 6

\* The selection screen with the cursor on any level and any stored
\* progress.
InitUnlock ==
    /\ \E c \in 0..maxCursor(NewTrackView) : trackView = [NewTrackView EXCEPT !.cursor = c]
    /\ results \in UnlockStores
    /\ pv = ZeroPuzzleView
    /\ syncs = 0
    /\ inits = 0
    /\ input = NoInput
    /\ exit = <<>>
    /\ key = NoKeys
    /\ read = NoRead
    /\ validated = FALSE
    /\ keyEvents = 0
    /\ screen = screenTrack
    /\ nvim = FALSE
    /\ engines = 0
    /\ exits = NoExits
    /\ selected = NoSelected
    /\ stale = 0
    /\ inputErr = FALSE
    /\ submitted = {}

\* Enter on the selection screen: selectItem asks IsLevelUnlocked for the
\* level under the cursor.
NextUnlock == TrackKey(SpecialMsg("KeyEnter")) /\ Bounded

SpecUnlock == InitUnlock /\ [][NextUnlock]_vars

\* Every puzzle of the level has a stored rating of at least one star.
C24_LevelCleared(level) ==
    \A i \in 1..Len(Puzzles) :
        Puzzles[i].Level = level =>
            Puzzles[i].ID \in DOMAIN results /\ results[Puzzles[i].ID].Stars >= OneStar

\* C24: level 1 is always unlocked, and a level L > 1 is unlocked if and
\* only if every puzzle of level L-1 has a stored rating of at least one
\* star (vacuously when level L-1 has no puzzles); the levels before L-1 are
\* not consulted. Enter on a level opens its puzzle list exactly when the
\* level is unlocked.
C24_UnlockedIffPreviousCleared ==
    /\ \A level \in 1..MaxLevel :
         IsLevelUnlocked(results, level, Puzzles) <=>
             (level = 1 \/ C24_LevelCleared(level - 1))
    /\ trackView.mode = viewLevels =>
         LET level == trackView.allLevels[trackView.cursor + 1].level IN
         (selectItem(trackView, results).v.mode = viewPuzzles) <=>
             (level = 1 \/ C24_LevelCleared(level - 1))
    /\ trackView.mode = viewPuzzles =>
         LET level == trackView.puzzleList[1].Level IN
         level = 1 \/ C24_LevelCleared(level - 1)

\* Enter opened level 3, whose previous level is cleared, while a puzzle of
\* level 1 has no stored result
C24_Witness ==
    /\ trackView.mode = viewPuzzles
    /\ trackView.puzzleList[1].ID = "p4"
    /\ "p1" \notin DOMAIN results
    /\ results["p3"].Stars = OneStar
    /\ key = NoKeys /\ screen = screenTrack

\* ===================================================================
\* The key sequencer on a wider set of keys
\* ===================================================================
\* keys of every class of handleNvimInput and handleOperatorPending: motions,
\* mode keys, text-object prefixes, operators, digits, character-search and
\* other prefix keys, escape
SeqKeyMsgs ==
    {RuneMsg(c) : c \in {"w", "i", "a", "d", "y", "0", "2", "f", "g", "r"}}
        \cup {SpecialMsg("KeyEsc")}

\* A session whose puzzle has been loaded: nothing in flight.
InitKeys ==
    /\ pv = NewPuzzleView(ThePuzzle, TRUE)
    /\ results = NoResults
    /\ syncs = 0
    /\ inits = 0
    /\ input = NoInput
    /\ exit = <<>>
    /\ key = NoKeys
    /\ read = NoRead
    /\ validated = FALSE
    /\ keyEvents = 0
    /\ screen = screenPuzzle
    /\ nvim = TRUE
    /\ engines = 1
    /\ trackView = NewTrackView
    /\ exits = NoExits
    /\ selected = NoSelected
    /\ stale = 0
    /\ inputErr = FALSE
    /\ submitted = {}

\* One session: key messages and the synchronizations they schedule.
NextKeys ==
    \/ \E msg \in SeqKeyMsgs :
         \E loadOK \in LoadAnswers(pv, msg), rd \in AppRestartReads(pv, msg) :
            KeyMsg(msg, loadOK, rd) /\ UNCHANGED appVars
    \/ \E rd \in AppReads, text \in AppTextAnswers(pv) :
         Sync(rd, text) /\ UNCHANGED appVars

SpecKeys == InitKeys /\ [][NextKeys]_vars

\* -------------------------------------------------------------------
\* C25: in NORMAL with nothing pending the key "0" is dispatched at once as
\* the command "0" and starts no count, while a digit 1-9 is buffered as the
\* start of a count and dispatches nothing.
C25_ZeroIsMotion ==
    [][LET k == key' IN
          (KeyEvent(k) /\ NormalIdle(pv)) =>
            /\ k = <<"0">> => Dispatches(<<"0">>) /\ pv'.mode = "NORMAL"
            /\ k \in DigitKeys \ {<<"0">>} =>
                  /\ Buffers
                  /\ pv'.pendingCount = k
                  /\ pv'.pendingKeys = <<>> /\ ~pv'.pendingOperator]_vars

\* "0" was the first key of the attempt and was sent alone
C25_Witness ==
    /\ key = <<"0">> /\ input = <<"0">>
    /\ pv.keystrokes = 1 /\ keyEvents = 1 /\ syncs = 1
    /\ PendingEmpty(pv) /\ pv.mode = "NORMAL"

\* -------------------------------------------------------------------
\* A count is pending in NORMAL and no keys are.
C26_CountPending(v) ==
    v.mode = "NORMAL" /\ v.pendingKeys = <<>> /\ v.pendingCount # <<>>

\* C26: with a count pending in NORMAL a further digit ("0" included)
\* extends the count without a dispatch, and an operator key or a prefix key
\* moves to the operator-pending or prefix-pending state without a dispatch,
\* carrying the count: what is buffered from then on, and the command
\* dispatched from it, begins with exactly the count digits ("2", "d", "w"
\* dispatches "2dw" once, on the third key).
C26_CountCarried ==
    [][LET k == key' IN
          KeyEvent(k) =>
            /\ (C26_CountPending(pv) /\ k \in DigitKeys) =>
                  /\ Buffers
                  /\ pv'.pendingCount = pv.pendingCount \o k
                  /\ pv'.pendingKeys = <<>>
            /\ (C26_CountPending(pv) /\ k \in OperatorKeys) =>
                  /\ Buffers
                  /\ pv'.pendingKeys = pv.pendingCount \o k
                  /\ pv'.pendingOperator /\ pv'.pendingCount = <<>>
            /\ (C26_CountPending(pv) /\ k \in PrefixKeys) =>
                  /\ Buffers
                  /\ pv'.pendingKeys = pv.pendingCount \o k
                  /\ ~pv'.pendingOperator /\ pv'.pendingCount = <<>>
            /\ (pv.mode = "NORMAL" /\ pv.pendingKeys # <<>> /\ k # Esc) =>
                  \/ Buffers /\ pv'.pendingKeys = pv.pendingKeys \o k
                  \/ Dispatches(pv.pendingKeys \o k)]_vars

\* "2", "d", "w" were three key events and one command "2dw"
C26_Witness ==
    /\ key = <<"w">> /\ input = <<"2", "d", "w">>
    /\ pv.keystrokes = 3 /\ syncs = 1 /\ PendingEmpty(pv)

\* -------------------------------------------------------------------
\* An operator is pending in NORMAL and waits for neither the character of a
\* text object nor the character of a search.
C27_OperatorWaits(v) ==
    /\ v.mode = "NORMAL" /\ v.pendingKeys # <<>> /\ v.pendingOperator
    /\ ~v.pendingTextObject /\ ~v.pendingNeedsChar

\* A digit has been accumulated after the pending operator.
C27_DigitAfterOperator(v) == <<v.pendingKeys[Len(v.pendingKeys)]>> \in DigitKeys

\* C27: with an operator pending and no sub-wait active a digit key extends
\* the operator's count and stays buffered, except that "0" arriving before
\* any digit was accumulated after the operator completes the command and
\* dispatches the buffered text followed by "0" ("d0"); once a digit has been
\* accumulated after the operator "0" extends the count instead ("d", "2",
\* "0" dispatches nothing).
C27_OperatorCount ==
    [][LET k == key' IN
          (KeyEvent(k) /\ C27_OperatorWaits(pv) /\ k \in DigitKeys) =>
            IF k = <<"0">> /\ ~C27_DigitAfterOperator(pv)
            THEN Dispatches(pv.pendingKeys \o k)
            ELSE /\ Buffers
                 /\ pv'.pendingKeys = pv.pendingKeys \o k
                 /\ C27_OperatorWaits(pv')]_vars

\* "d", "2", "0" are buffered and nothing was dispatched
C27_Witness ==
    /\ key = <<"0">> /\ pv.pendingKeys = <<"d", "2", "0">>
    /\ input = NoInput /\ syncs = 0 /\ pv.keystrokes = 3

\* -------------------------------------------------------------------
TextObjectKeys == {<<"i">>, <<"a">>}

CharSearchKeys == {<<"f">>, <<"t">>, <<"F">>, <<"T">>}

\* C28: with an operator pending and no sub-wait active every key other than
\* escape, a digit, a text-object prefix (i, a) or a character-search key
\* (f, t, F, T) is a complete motion: the buffered text followed by the key
\* is dispatched at once as one command and the pending state is cleared,
\* also when the key is itself a prefix of a multi-key motion such as g
\* ("d", "g" dispatches "dg").
C28_OtherKeyCompletesOperator ==
    [][LET k == key' IN
          (KeyEvent(k) /\ C27_OperatorWaits(pv)
              /\ k \notin {Esc} \cup DigitKeys \cup TextObjectKeys \cup CharSearchKeys)
            => Dispatches(pv.pendingKeys \o k)]_vars

\* "d", "g" were two key events and one command "dg"
C28_Witness ==
    /\ key = <<"g">> /\ input = <<"d", "g">>
    /\ pv.keystrokes = 2 /\ syncs = 1 /\ PendingEmpty(pv)

\* -------------------------------------------------------------------
\* A prefix key is buffered: pendingKeys ends with it and no operator waits.
C29_PrefixBuffered(v) ==
    /\ v.mode = "NORMAL" /\ v.pendingKeys # <<>> /\ ~v.pendingOperator
    /\ <<v.pendingKeys[Len(v.pendingKeys)]>> \in PrefixKeys

\* C29: after a prefix key (r f t F T m ' ` g z @ q [ ]) is buffered in
\* normal mode, the very next non-escape key event, whatever it is (a digit,
\* an operator letter, a mode-changing key, another prefix key), is appended
\* and the two keys are dispatched together as one command; the second key
\* never starts a count, an operator or a new pending state.
C29_NextKeyCompletesPrefix ==
    [][LET k == key' IN
          (KeyEvent(k) /\ C29_PrefixBuffered(pv) /\ k # Esc)
            => /\ Dispatches(pv.pendingKeys \o k)
               /\ pv'.pendingCount = <<>> /\ ~pv'.pendingOperator]_vars

\* "f", "d" were two key events and one command "fd"
C29_Witness ==
    /\ key = <<"d">> /\ input = <<"f", "d">>
    /\ pv.keystrokes = 2 /\ syncs = 1 /\ PendingEmpty(pv)

\* -------------------------------------------------------------------
\* The keys that are buffered: a leading count or the pending text.
C30_Buffered(v) == v.pendingCount \o v.pendingKeys

C30_StartsWith(s, p) == Len(p) <= Len(s) /\ SubSeq(s, 1, Len(p)) = p

\* The step hands the editor a command that begins with the buffered keys.
C30_DispatchesBuffered ==
    /\ input' # NoInput
    /\ syncs' = syncs + 1
    /\ C30_StartsWith(input', C30_Buffered(pv))

\* The step is the handling of an escape key event.
C30_Escapes == keyEvents' = keyEvents + 1 /\ key' = Esc

\* C30: buffered keys are never silently discarded: a non-empty pending state
\* is given up only by dispatching its accumulated text as part of a command,
\* by an escape key, or by a start, retry, reset or the leaving of the
\* session; in particular a non-escape key handled while the mode estimate
\* is not normal does not drop keys that were buffered earlier.
C30_BufferedNeverDropped ==
    [][(C30_Buffered(pv) # <<>> /\ ~C30_StartsWith(C30_Buffered(pv'), C30_Buffered(pv)))
          => \/ C30_DispatchesBuffered
             \/ C30_Escapes
             \/ C13_Starts
             \/ C13_Restarts
             \/ exit' # exit]_vars

\* -------------------------------------------------------------------
\* tea.Tick of scheduleSync: a scheduled nvimSyncMsg is delivered to the view
Tick ==
    \E rd \in SyncReads, text \in TextAnswers(pv) :
        Sync(rd, text) /\ UNCHANGED appVars

\* One puzzle session in which every scheduled tick is eventually delivered:
\* the timer of scheduleSync fires 10 ms after the dispatch.
SpecLive == Init /\ [][Next]_vars /\ WF_vars(Tick)

\* The last step handed a command to the editor of a playing session.
C31_Dispatched == pv.state = statePlaying /\ input # NoInput

\* The last step read the editor and did not find the goal text: a
\* synchronization whose read failed or answered another text, or a load of
\* the initial text.
C31_GoalNotRead == read # NoRead /\ ~validated

C32_ClearedIsInert ==
    [][pv.state = stateCleared =>
          /\ results' = results
          /\ pv'.stars = pv.stars
          /\ pv'.state = stateCleared =>
                /\ input' = NoInput
                /\ syncs' <= syncs
                /\ pv'.keystrokes = pv.keystrokes]_vars

\* -------------------------------------------------------------------
\* The step is a synchronization that clears the puzzle and stores a result.
C33_Clears ==
    /\ pv.state = statePlaying /\ pv'.state = stateCleared
    /\ pv.puzzle.ID \in DOMAIN results'

\* C33: the keystroke count that is scored and stored when a puzzle clears
\* is the number of key events up to and including the key whose dispatch
\* produced the goal text; keys pressed after that dispatch and before its
\* synchronization is processed, buffered or dispatched, are not included.
\* Every dispatch leaves nothing buffered, so the keys that are buffered
\* when the synchronization is processed were pressed after the dispatch:
\* the count scored and stored leaves them out.
C33_ScoredCountStopsAtDispatch ==
    [][C33_Clears =>
          /\ pv'.keystrokes <= keyEvents - Len(C30_Buffered(pv))
          /\ (results' # results =>
                results'[pv.puzzle.ID].Keystrokes <= keyEvents - Len(C30_Buffered(pv)))]_vars

\* -------------------------------------------------------------------
\* The running session was never cleared: its rating was never set, so it
\* has issued no advance request (enter is an exit key in the cleared state
\* only).
C34_NeverCleared(v) == v.state = statePlaying /\ v.stars = NoStar

\* The step is App.Update for an advance request, puzzleExitMsg{next: true},
\* on the puzzle screen.
C34_Advances == exits'[TRUE] = exits[TRUE] - 1 /\ screen = screenPuzzle

\* C34: an exit or advance request acts only on the session that issued it:
\* a duplicate or late exit message, e.g. from pressing enter twice before
\* the first message is processed, never skips a puzzle and never closes or
\* replaces a session started later. An advance request that is processed
\* while the running session was never cleared was issued by an earlier
\* session: it leaves the running session, the screen and the editor alone.
C34_LateAdvanceIgnored ==
    [][(C34_Advances /\ C34_NeverCleared(pv)) =>
          /\ pv' = pv
          /\ screen' = screen
          /\ nvim' = nvim
          /\ engines' = engines]_vars

\* -------------------------------------------------------------------
\* The step processes the start of a session: initPuzzleMsg is delivered.
C35_StartProcessed == inits' = inits - 1

\* C35: after a start, retry or reset has been processed the mode estimate
\* is normal, whatever mode the editor and the estimate were in when the
\* previous attempt ended, so that the first key of the new attempt is
\* handled by the normal-mode grammar.
C35_NormalAfterStartRetryReset ==
    [][(C35_StartProcessed \/ C13_Restarts) => pv'.mode = "NORMAL"]_vars

\* -------------------------------------------------------------------
\* Synchronizations of views that show a buffer, a cursor and a mode: the
\* view is drawn from the displays a session can have, the editor answers
\* any lines and any cursor, and any of its reads may fail.
ReadViews ==
    {[NewPuzzleView(ThePuzzle, TRUE) EXCEPT
         !.lines = l, !.cursorRow = c[1], !.cursorCol = c[2], !.mode = md,
         !.keystrokes = 1] :
        l \in ScreenLines, c \in Cursors, md \in {"NORMAL", "INSERT"}}

InitRead ==
    /\ pv \in ReadViews
    /\ results = NoResults
    /\ syncs = MaxSyncs
    /\ inits = 0
    /\ input = NoInput
    /\ exit = <<>>
    /\ key = NoKeys
    /\ read = NoRead
    /\ validated = FALSE
    /\ keyEvents = 1
    /\ screen = screenPuzzle
    /\ nvim = TRUE
    /\ engines = 1
    /\ trackView = NewTrackView
    /\ exits = NoExits
    /\ selected = NoSelected
    /\ stale = 0
    /\ inputErr = FALSE
    /\ submitted = {}

NextRead ==
    \E rd \in ScreenReads, text \in TextAnswers(pv) :
        Sync(rd, text) /\ UNCHANGED appVars

SpecRead == InitRead /\ [][NextRead]_vars

\* what the view displays of the editor
C36_Display(v) == <<v.lines, v.cursorRow, v.cursorCol, v.mode>>

\* The step read the editor and GetLines failed.
C36_LinesNotRead == read' # NoRead /\ ~read'.linesOK

\* The step is a synchronization whose completion check did not read the
\* goal text: GetBufferText failed or answered another text.
C36_GoalNotChecked == syncs' = syncs - 1 /\ ~validated'

\* C36: a failing read of the editor during a synchronization is not fatal
\* and changes nothing it could not read: if the read of the buffer lines
\* fails, the displayed lines, the cursor and the mode estimate keep their
\* previous values; if the read of the completion check fails, the session
\* stays playing and nothing is scored or stored.
C36_FailedReadChangesNothing ==
    [][/\ C36_LinesNotRead => C36_Display(pv') = C36_Display(pv)
       /\ C36_GoalNotChecked =>
             /\ pv'.state = pv.state
             /\ pv'.stars = pv.stars
             /\ results' = results]_vars

\* a synchronization whose reads all failed, of a playing view that shows
\* lines, a cursor off the origin and insert mode
C36_Witness ==
    /\ read = FailedRead /\ ~validated /\ syncs < MaxSyncs
    /\ pv.state = statePlaying /\ results = NoResults
    /\ C36_Display(pv) = <<<<<<"a">>>>, 0, 1, "INSERT">>

\* ===================================================================
\* Sequences of Store.SetBest calls for one puzzle
\* ===================================================================
\* the results submitted: every rating with every keystroke count
Submissions == [Stars : {OneStar, TwoStar, ThreeStar}, Keystrokes : BestKeystrokes]

\* A store that holds nothing of the puzzle, and no call yet.
InitSubmit ==
    /\ pv = NewPuzzleView(ThePuzzle, TRUE)
    /\ results \in {r \in BestStores : ThePuzzle.ID \notin DOMAIN r}
    /\ syncs = 0
    /\ inits = 0
    /\ input = NoInput
    /\ exit = <<>>
    /\ key = NoKeys
    /\ read = NoRead
    /\ validated = FALSE
    /\ keyEvents = 0
    /\ screen = screenPuzzle
    /\ nvim = TRUE
    /\ engines = 1
    /\ trackView = NewTrackView
    /\ exits = NoExits
    /\ selected = NoSelected
    /\ stale = 0
    /\ inputErr = FALSE
    /\ submitted = {}

\* Store.SetBest(puzzleID, stars, keystrokes) for the puzzle
Submit(r) ==
    /\ results' = SetBest(results, ThePuzzle.ID, r.Stars, r.Keystrokes)
    /\ submitted' = submitted \cup {r}
    /\ UNCHANGED <<pv, syncs, inits, input, exit, key, read, validated, keyEvents,
                   screen, nvim, engines, trackView, exits, selected, stale, inputErr>>

NextSubmit == \E r \in Submissions : Submit(r)

SpecSubmit == InitSubmit /\ [][NextSubmit]_vars

\* the order of results: a higher rating first, then fewer keystrokes
C37_Better(a, b) ==
    \/ a.Stars > b.Stars
    \/ a.Stars = b.Stars /\ a.Keystrokes < b.Keystrokes

C37_Best(S) == CHOOSE r \in S : \A q \in S \ {r} : C37_Better(r, q)

\* The stored result of the puzzle is the best of the results submitted.
C37_StoredBest ==
    submitted # {} =>
        /\ ThePuzzle.ID \in DOMAIN results
        /\ results[ThePuzzle.ID] = C37_Best(submitted)

\* The stored rating of the puzzle does not decrease.
C37_RatingKept ==
    ThePuzzle.ID \in DOMAIN results =>
        /\ ThePuzzle.ID \in DOMAIN results'
        /\ results'[ThePuzzle.ID].Stars >= results[ThePuzzle.ID].Stars

\* C37: after any sequence of SetBest calls for one puzzle, with no reset of
\* the progress in between, the stored result is the best of all results
\* submitted under the order "higher rating first, then fewer keystrokes".
\* The stored result is then a function of the set of results submitted: it
\* does not depend on their order, a result submitted twice counts once, and
\* the stored rating never decreases.
C37_StoredIsBestSubmitted == []C37_StoredBest /\ [][C37_RatingKept]_vars

\* three results were submitted, the one with the fewest keystrokes has the
\* lowest rating, and the best one is stored
C37_Witness ==
    /\ submitted = {[Stars |-> OneStar, Keystrokes |-> 7],
                    [Stars |-> ThreeStar, Keystrokes |-> 12],
                    [Stars |-> ThreeStar, Keystrokes |-> 10]}
    /\ results[ThePuzzle.ID] = [Stars |-> ThreeStar, Keystrokes |-> 10]

\* ===================================================================
\* The application with the second level unlocked
\* ===================================================================
\* the store after both puzzles of level 1 were cleared with one key each
Level1Cleared ==
    [id \in {Puzzles[1].ID, Puzzles[2].ID} |-> [Stars |-> ThreeStar, Keystrokes |-> 1]]

\* The selection screen, the cursor moved down to level 2, no editor.
InitSelect ==
    /\ pv = ZeroPuzzleView
    /\ results = Level1Cleared
    /\ syncs = 0
    /\ inits = 0
    /\ input = NoInput
    /\ exit = <<>>
    /\ key = NoKeys
    /\ read = NoRead
    /\ validated = FALSE
    /\ keyEvents = 0
    /\ screen = screenTrack
    /\ nvim = FALSE
    /\ engines = 0
    /\ trackView = [NewTrackView EXCEPT !.cursor = 1]
    /\ exits = NoExits
    /\ selected = NoSelected
    /\ stale = 0
    /\ inputErr = FALSE
    /\ submitted = {}

\* keys typed in a session: a motion, enter and the quit key
SelectKeyMsgs ==
    {RuneMsg("w")} \cup {SpecialMsg(t) : t \in {"KeyEnter", "KeyCtrlQ"}}

\* the editor stays in normal mode
SelectReads == {rd \in AppReads : rd.mode = <<"n">>}

\* The application as in NextApp, with sessions that are played with one
\* motion key and then left.
NextSelect ==
    \/ \E msg \in TrackKeyMsgs : TrackKey(msg) /\ Bounded
    \/ \E i \in 1..Len(Puzzles), newOK \in BOOLEAN : SelectedPuzzle(i, newOK) /\ Bounded
    \/ \E next \in BOOLEAN : PuzzleExit(next) /\ Bounded
    \/ TrackInit
    \/ TrackSync
    \/ \E rd \in SelectReads :
         InitPuzzle(TRUE, rd) /\ ViewStep /\ inputErr' = FALSE /\ UNCHANGED stale
    \/ \E rd \in SelectReads, text \in AppTextAnswers(pv) :
         Sync(rd, text) /\ ViewStep /\ inputErr' = FALSE /\ UNCHANGED stale
    \/ \E rd \in SelectReads, text \in AppTextAnswers(pv) :
         StaleSync(rd, text) /\ ViewStep /\ inputErr' = FALSE
    \/ \E msg \in SelectKeyMsgs :
         /\ KeyMsg(msg, TRUE, NoRead)
         /\ pv'.keystrokes <= MaxSessionKeys
         /\ ViewStep
         /\ inputErr' = FALSE
         /\ UNCHANGED stale
         /\ Bounded

SpecSelect == InitSelect /\ [][NextSelect]_vars

\* C38: a puzzle session is only ever started for a puzzle whose level is
\* unlocked at that moment: selecting a locked level in the level list does
\* nothing, advancing after a clear stays within the same level, and
\* confirming a progress reset returns the selection view to the level list,
\* so that no puzzle list of a now-locked level stays selectable.
C38_StartedOnUnlockedLevel ==
    [][C13_Starts => IsLevelUnlocked(results', pv'.puzzle.Level, Puzzles)]_vars

\* -------------------------------------------------------------------
\* the number of keys of the text that are no digits
C39_NonDigits(s) == Cardinality({i \in DOMAIN s : <<s[i]>> \notin DigitKeys})

\* At most two keys that are no digits are buffered, and two of them only as
\* an operator followed by a text-object prefix or a character-search key.
C39_TwoBuffered ==
    LET n == C39_NonDigits(C30_Buffered(pv)) IN
    /\ n <= 2
    /\ n = 2 =>
         /\ pv.pendingOperator
         /\ pv.pendingTextObject \/ pv.pendingNeedsChar
         /\ <<pv.pendingKeys[Len(pv.pendingKeys)]>> \in TextObjectKeys \cup CharSearchKeys

\* A key that is no digit and is handled in normal mode without a dispatch
\* joins the buffered keys; with two of them buffered it dispatches.
C39_NonDigitStep ==
    LET k == key' IN
    (KeyEvent(k) /\ pv.mode = "NORMAL" /\ k \notin DigitKeys) =>
        /\ input' = NoInput =>
              /\ C30_Buffered(pv') = C30_Buffered(pv) \o k
              /\ k # Esc
        /\ C39_NonDigits(C30_Buffered(pv)) = 2 =>
              /\ input' # NoInput
              /\ syncs' = syncs + 1
              /\ PendingEmpty(pv')

\* C39: buffering is bounded for keys that are no digits: while the mode
\* estimate stays normal at most two non-digit, non-escape keys are buffered
\* in a row without a dispatch (an operator followed by a text-object prefix
\* or a character-search key), so that of any three consecutive non-digit
\* key events at least one dispatches a command; only digit keys extend a
\* pending command further.
C39_BufferingBounded == []C39_TwoBuffered /\ [][C39_NonDigitStep]_vars

\* "d", "i" were buffered and the third key "w" dispatched "diw"
C39_Witness ==
    /\ key = <<"w">> /\ input = <<"d", "i", "w">>
    /\ pv.keystrokes = 3 /\ PendingEmpty(pv)

\* -------------------------------------------------------------------
\* C40: the boolean pending flags only take combinations that encode one
\* variant of the pending-state machine: in every reachable state a flag that
\* is true implies that pendingKeys is not empty and pendingCount is empty;
\* pendingTextObject or pendingHasCount being true implies that
\* pendingOperator is true; pendingTextObject and pendingNeedsChar are never
\* both true.
C40_PendingFlagsEncodeOneVariant ==
    /\ (pv.pendingOperator \/ pv.pendingNeedsChar \/ pv.pendingTextObject \/ pv.pendingHasCount)
          => (pv.pendingKeys # <<>> /\ pv.pendingCount = <<>>)
    /\ (pv.pendingTextObject \/ pv.pendingHasCount) => pv.pendingOperator
    /\ ~(pv.pendingTextObject /\ pv.pendingNeedsChar)

\* an operator with a count waits for the character of a character search
C40_Witness ==
    /\ pv.pendingKeys = <<"d", "2", "f">>
    /\ pv.pendingOperator /\ pv.pendingHasCount /\ pv.pendingNeedsChar
    /\ ~pv.pendingTextObject /\ pv.pendingCount = <<>>
    /\ key = <<"f">> /\ input = NoInput

=============================================================================
